---- MODULE Spec2Model ----
(***************************************************************************)
(* EZ-Panel network discovery engine (ez_panel/utils/network_scan.py).     *)
(*                                                                         *)
(* IPv4 addresses are integers of AddrBits bits; a token that is not a    *)
(* valid IPv4 address is BadTok.  Strings that the code only compares or   *)
(* passes on (names, vendors) are TLA+ strings; MAC addresses are          *)
(* sequences of one-character strings, so that normalisation and the       *)
(* canonical-form test work on characters as the code does.  Python's      *)
(* None is the value None (NoMac for a MAC); "" and <<>> are the empty     *)
(* string.                                                                 *)
(***************************************************************************)
EXTENDS Integers, Sequences, FiniteSets, TLC

VARIABLES
    path,       \* executables that shutil.which finds
    pc,         \* position of the scan_network call
    args,       \* arguments of the call
    frame,      \* locals of scan_network: cidr, chosen, backends_tried, devices
    ret,        \* what the call gave its caller
    subnets,    \* subnet="all": what discover_all_local_cidrs returned
    pool,       \* subnet="all": the futures of the per-subnet scans
    results,    \* subnet="all": the merge dictionary, in insertion order
    merged,     \* subnet="all": futures in the order as_completed yielded them
    probe,      \* paired ping scans: hosts that answer the ping
    pair,       \* paired ping scans: the two returned lists
    deep,       \* enrichment of one base list: the base, what each source gave, the merge
    disc,       \* discover_all_local_cidrs: the interfaces, the loop, the list
    lookup,     \* _vendor_from_mac: the argument and the result
    JOBS,       \* app.py: the job table, job id -> job dictionary
    workers,    \* app.py: the thread of each job, its position and locals
    history,    \* app.py: the lines of scan_history.jsonl
    clock,      \* app.py: what time.time() returns next
    OUI_CACHE,  \* the module global _OUI_CACHE
    oui_file,   \* whether data/oui_prefixes.json exists
    callers,    \* the threads inside _vendor_from_mac: position and locals
    leasing,    \* discover_dhcp_leases: the two lease files, the list
    taskrun,    \* tasks.py, run_task: the task, the params, what was executed
    term        \* app.py, POST /run: _CWD_MAP, what bash was handed, the response

\* the state of one scan_network call, and the state outside it
scanVars == <<path, pc, args, frame, ret, subnets, pool, results, merged, probe, pair>>
jobVars == <<JOBS, workers, history, clock>>
ouiVars == <<OUI_CACHE, oui_file, callers>>
later == <<jobVars, ouiVars, leasing, taskrun, term>>
elsewhere == <<deep, disc, lookup, later>>

vars == <<scanVars, elsewhere>>

---------------------------------------------------------------------------
(* Bounds *)

AddrBits == 3          \* width of an address
MaxLines == 2          \* lines of one tool output
MaxExtras == 1         \* records one enrichment source reports

MaxAddr == 2 ^ AddrBits - 1
BadTok == 0 - 1        \* a token that is not an IPv4 address

None == "<None>"
NoMac == <<"<None>">>

Falsy(s) == s = None \/ s = ""
FalsyMac(m) == m = NoMac \/ m = <<>>
\* Python's `a or b`
Or(a, b) == IF Falsy(a) THEN b ELSE a
OrMac(a, b) == IF FalsyMac(a) THEN b ELSE a

IpStr(ip) == "ip" \o ToString(ip)

Range(s) == {s[i] : i \in DOMAIN s}

\* sequences over S of length at most n
SeqUpTo(S, n) == UNION {[1..k -> S] : k \in 0..n}

\* the orders in which the elements of the sequence s can complete
Perms(s) ==
    {p \in [DOMAIN s -> Range(s)] : \A i, j \in DOMAIN s : i # j => p[i] # p[j]}

---------------------------------------------------------------------------
(* MAC addresses *)

HexUpper == {"0", "1", "2", "3", "4", "5", "6", "7", "8", "9",
             "A", "B", "C", "D", "E", "F"}

\* str.upper() on one character
Upper(c) ==
    CASE c = "a" -> "A" [] c = "b" -> "B" [] c = "c" -> "C"
      [] c = "d" -> "D" [] c = "e" -> "E" [] c = "f" -> "F"
      [] c = "z" -> "Z" [] OTHER -> c

RECURSIVE StripLeft(_)
StripLeft(m) ==
    IF m # <<>> /\ Head(m) = " " THEN StripLeft(Tail(m)) ELSE m

RECURSIVE StripRight(_)
StripRight(m) ==
    IF m # <<>> /\ m[Len(m)] = " " THEN StripRight(SubSeq(m, 1, Len(m) - 1)) ELSE m

\* _normalize_mac that exchanges the two separators
normalize_mac_swap_separators(mac) ==
    LET s == StripRight(StripLeft(mac))
    IN  [i \in DOMAIN s |->
            IF Upper(s[i]) = "-" THEN ":" ELSE IF s[i] = ":" THEN "-" ELSE Upper(s[i])]

normalize_mac(mac) ==
    LET s == StripRight(StripLeft(mac))
    IN  [i \in DOMAIN s |-> IF Upper(s[i]) = "-" THEN ":" ELSE Upper(s[i])]

\* ^[0-9A-F]{2}(:[0-9A-F]{2}){5}$
MacRegex(m) ==
    /\ Len(m) = 17
    /\ \A i \in 1..17 : IF i % 3 = 0 THEN m[i] = ":" ELSE m[i] \in HexUpper

RECURSIVE JoinOctets(_, _)
JoinOctets(octets, sep) ==
    IF Len(octets) = 1 THEN Head(octets)
    ELSE Head(octets) \o <<sep>> \o JoinOctets(Tail(octets), sep)

MacLower == JoinOctets(<<<<"a","a">>, <<"b","b">>, <<"c","c">>,
                         <<"0","1">>, <<"0","2">>, <<"0","3">>>>, ":")
MacUpper == JoinOctets(<<<<"A","A">>, <<"B","B">>, <<"C","C">>,
                         <<"0","1">>, <<"0","2">>, <<"0","3">>>>, ":")
MacHyphen == JoinOctets(<<<<"0","0">>, <<"1","1">>, <<"2","2">>,
                          <<"d","d">>, <<"e","e">>, <<"f","f">>>>, "-")
MacOther == JoinOctets(<<<<"0","0">>, <<"1","1">>, <<"2","2">>,
                         <<"3","3">>, <<"4","4">>, <<"5","5">>>>, ":")

\* the packaged OUI table: 3-octet prefix -> vendor
OuiPrefix == SubSeq(MacUpper, 1, 8)
OuiTable == [p \in {OuiPrefix} |-> "Acme"]

\* vendor_from_mac without the call of _normalize_mac
vendor_from_mac_as_given(mac) ==
    IF FalsyMac(mac) THEN None
    ELSE IF ~MacRegex(mac) THEN None
         ELSE LET prefix == SubSeq(mac, 1, 8)
              IN  IF prefix \in DOMAIN OuiTable THEN OuiTable[prefix] ELSE None

vendor_from_mac(mac) ==
    IF FalsyMac(mac) THEN None
    ELSE LET m == normalize_mac(mac)
         IN  IF ~MacRegex(m) THEN None
             ELSE LET prefix == SubSeq(m, 1, 8)
                  IN  IF prefix \in DOMAIN OuiTable THEN OuiTable[prefix] ELSE None

---------------------------------------------------------------------------
(* Device dictionaries.  A key a dictionary does not have reads as None.   *)

Dev(ip, name, status, type, mac, vendor) ==
    [ip |-> ip, name |-> name, status |-> status, type |-> type,
     mac |-> mac, vendor |-> vendor]

is_ipv4(tok) == tok \in 0..MaxAddr

\* socket.gethostbyaddr: the hosts in Resolvable have a PTR record
Resolvable == {1}
reverse_dns(ip) == IF ip \in Resolvable THEN "host" \o ToString(ip) ELSE IpStr(ip)

---------------------------------------------------------------------------
(* Tool output.  _sh gives (returncode, stdout); an exception or a timeout *)
(* of the tool is (1, "").  stdout is a sequence of lines.                 *)

Run(rc, out) == [rc |-> rc, out |-> out]

\* one line of arp-scan output: a banner line, or its tab-separated fields
ArpLine(kind, parts) == [kind |-> kind, parts |-> parts]

ArpLines ==
    { ArpLine("banner", <<>>),
      ArpLine("fields", <<"3 packets received">>),
      ArpLine("fields", <<1, MacLower, "VendorX">>),
      ArpLine("fields", <<1, MacOther>>),
      ArpLine("fields", <<2, MacUpper>>),
      ArpLine("fields", <<BadTok, MacOther, "VendorX">>) }

ArpRuns ==
    {Run(1, <<>>), Run(2, <<ArpLine("banner", <<>>)>>)}
        \cup {Run(0, out) : out \in SeqUpTo(ArpLines, MaxLines)}

parse_arp_scan(output) ==
    LET IsRecord(line) ==
            /\ line.kind = "fields"
            /\ Len(line.parts) >= 2
            /\ is_ipv4(line.parts[1])
        lines == SelectSeq(output, IsRecord)
    IN  [i \in DOMAIN lines |->
            Dev(lines[i].parts[1], None, None, None, lines[i].parts[2],
                IF Len(lines[i].parts) >= 3 THEN lines[i].parts[3] ELSE None)]

\* one line of `nmap -sn` output
\*   "report":  Nmap scan report for <name> (<ip>)   when paren
\*              Nmap scan report for <ip>            otherwise
\*   "mac":     MAC Address: <mac> (<vendor>)        vendor None without "("
\*   "macbare": MAC Address:
\*   "other":   any other line
NmapLine(kind, paren, name, ip, mac, vendor) ==
    [kind |-> kind, paren |-> paren, name |-> name, ip |-> ip,
     mac |-> mac, vendor |-> vendor]

NmapLines ==
    { NmapLine("other", FALSE, None, BadTok, NoMac, None),
      NmapLine("report", TRUE, "router", 1, NoMac, None),
      NmapLine("report", FALSE, None, 2, NoMac, None),
      NmapLine("report", FALSE, None, BadTok, NoMac, None),
      NmapLine("mac", FALSE, None, BadTok, MacUpper, "Acme"),
      NmapLine("mac", FALSE, None, BadTok, MacLower, None),
      NmapLine("macbare", FALSE, None, BadTok, NoMac, None) }

NmapRuns ==
    {Run(1, <<>>)} \cup {Run(0, out) : out \in SeqUpTo(NmapLines, MaxLines)}

NoIp == BadTok - 1     \* current["ip"] is None

\* the loop of _parse_nmap_sn: st = [raised, devices, current]
RECURSIVE NmapLoop(_, _)
NmapLoop(lines, st) ==
    IF lines = <<>> \/ st.raised THEN st
    ELSE LET line == Head(lines)
             cur == st.current
             flushed == IF cur.ip # NoIp THEN Append(st.devices, cur) ELSE st.devices
         IN  NmapLoop(Tail(lines),
                CASE line.kind = "report" ->
                        [st EXCEPT !.devices = flushed,
                                   !.current = Dev(line.ip,
                                                   IF line.paren THEN line.name ELSE None,
                                                   None, None, NoMac, None)]
                  [] line.kind = "mac" ->
                        [st EXCEPT !.current.mac = line.mac,
                                   !.current.vendor = line.vendor]
                  [] line.kind = "macbare" ->
                        \* rest.split()[0] on an empty rest: IndexError
                        [st EXCEPT !.raised = TRUE]
                  [] OTHER -> st)

\* [raised, devices]
parse_nmap_sn(output) ==
    LET st == NmapLoop(output,
                  [raised |-> FALSE, devices |-> <<>>,
                   current |-> Dev(NoIp, None, None, None, NoMac, None)])
    IN  [raised |-> st.raised,
         devices |-> IF ~st.raised /\ st.current.ip # NoIp
                     THEN Append(st.devices, st.current) ELSE st.devices]

\* scan_network.normalize
\* normalize that leaves the name as the tool gave it
normalize_name_as_given(items) ==
    LET Keep(d) == is_ipv4(d.ip)
        kept == SelectSeq(items, Keep)
    IN  [i \in DOMAIN kept |->
            Dev(kept[i].ip,
                kept[i].name,
                Or(kept[i].status, "online"),
                Or(kept[i].type, "unknown"),
                kept[i].mac,
                kept[i].vendor)]

normalize(items) ==
    LET Keep(d) == is_ipv4(d.ip)
        kept == SelectSeq(items, Keep)
    IN  [i \in DOMAIN kept |->
            Dev(kept[i].ip,
                Or(kept[i].name, reverse_dns(kept[i].ip)),
                Or(kept[i].status, "online"),
                Or(kept[i].type, "unknown"),
                kept[i].mac,
                kept[i].vendor)]

---------------------------------------------------------------------------
(* CIDRs and the ping sweep *)

\* the subnet argument: None, "all", or the text of a CIDR; a text that
\* ipaddress.ip_network rejects has a prefix length above AddrBits
Subnet(kind, addr, prefix) == [kind |-> kind, addr |-> addr, prefix |-> prefix]
NoSubnet == Subnet("none", 0, 0)
AllSubnets == Subnet("all", 0, 0)
Cidr(addr, prefix) == Subnet("cidr", addr, prefix)

ValidCidr(c) == c.kind = "cidr" /\ c.addr \in 0..MaxAddr /\ c.prefix \in 0..AddrBits

\* ipaddress.ip_network(cidr, strict=False).hosts(), in address order
hosts(c) ==
    LET size == 2 ^ (AddrBits - c.prefix)
        net == c.addr - (c.addr % size)
    IN  IF size >= 4 THEN [i \in 1..(size - 2) |-> net + i]
        ELSE [i \in 1..size |-> net + i - 1]

PingDev(ip, alive) ==
    Dev(ip, IF alive THEN reverse_dns(ip) ELSE IpStr(ip),
        IF alive THEN "online" ELSE "offline", "unknown", NoMac, None)

\* ping_sweep that lists a host only when it answered
ping_sweep_alive_only(c, include_offline, answering, order) ==
    IF ~ValidCidr(c) THEN [raised |-> TRUE, devices |-> <<>>]
    ELSE LET Listed(ip) == ip \in answering
             kept == SelectSeq(order, Listed)
         IN  [raised |-> FALSE,
              devices |-> [i \in DOMAIN kept |-> PingDev(kept[i], kept[i] \in answering)]]

\* ping_sweep that lists every host whatever include_offline says
ping_sweep_all_hosts(c, include_offline, answering, order) ==
    IF ~ValidCidr(c) THEN [raised |-> TRUE, devices |-> <<>>]
    ELSE [raised |-> FALSE,
          devices |-> [i \in DOMAIN order |-> PingDev(order[i], order[i] \in answering)]]

\* _ping_sweep: answering is the set of hosts whose probe returns True,
\* order the order in which as_completed yields the probes
\* [raised, devices]
ping_sweep(c, include_offline, answering, order) ==
    IF ~ValidCidr(c) THEN [raised |-> TRUE, devices |-> <<>>]
    ELSE LET Listed(ip) == ip \in answering \/ include_offline
             kept == SelectSeq(order, Listed)
         IN  [raised |-> FALSE,
              devices |-> [i \in DOMAIN kept |-> PingDev(kept[i], kept[i] \in answering)]]

---------------------------------------------------------------------------
(* Enrichment *)

\* _arp_neighbors: ip -> mac as `ip neigh show` prints them
NeighborTables ==
    { <<>>,
      [ip \in {1} |-> MacLower],
      [ip \in {1, 2} |-> MacOther] }

\* the index of the dictionary entry for ip: the last device with that ip
LastIndex(devices, ip) ==
    CHOOSE i \in DOMAIN devices :
        /\ devices[i].ip = ip
        /\ \A j \in DOMAIN devices : devices[j].ip = ip => j <= i

merge_mac_vendor(devices, neighbors) ==
    [i \in DOMAIN devices |->
        IF devices[i].ip \in DOMAIN neighbors /\ i = LastIndex(devices, devices[i].ip)
        THEN [devices[i] EXCEPT !.mac = OrMac(devices[i].mac, neighbors[devices[i].ip])]
        ELSE devices[i]]

\* scan_network, "Add vendor via OUI DB if missing"
FillVendor(devices) ==
    [i \in DOMAIN devices |->
        IF Falsy(devices[i].vendor) /\ ~FalsyMac(devices[i].mac)
        THEN [devices[i] EXCEPT !.vendor = vendor_from_mac(devices[i].mac)]
        ELSE devices[i]]

\* what discover_ssdp_devices and discover_mdns_devices return: one record
\* per answering address, name never empty
SourceDev(ip, name, type) == Dev(ip, name, "online", type, NoMac, None)

SsdpDevs == {SourceDev(2, "Server/1.0", "ssdp"), SourceDev(5, IpStr(5), "ssdp")}
MdnsDevs == {SourceDev(2, "printer._http._tcp.local.", "mdns")}

\* lists of distinct-ip records of a source
SourceLists(S) ==
    {l \in SeqUpTo(S, MaxExtras) : \A i, j \in DOMAIN l : i # j => l[i].ip # l[j].ip}

\* a lease as parse_dnsmasq_leases / parse_dhcpd_leases give it
Lease(ip, mac, name) == [ip |-> ip, mac |-> mac, name |-> name]

RawLeases ==
    { Lease(1, MacHyphen, "laptop"),
      Lease(2, MacLower, ""),
      Lease(6, <<>>, "tv") }

LeaseLists == SeqUpTo(RawLeases, MaxExtras)

discover_dhcp_leases(leases) ==
    [i \in DOMAIN leases |->
        IF ~FalsyMac(leases[i].mac)
        THEN [leases[i] EXCEPT !.mac = normalize_mac(leases[i].mac)]
        ELSE leases[i]]

\* position of ip in an insertion-ordered dictionary kept as a sequence, 0 if absent
IndexOf(idx, ip) ==
    IF \E i \in DOMAIN idx : idx[i].ip = ip
    THEN CHOOSE i \in DOMAIN idx : idx[i].ip = ip
    ELSE 0

\* idx[d.ip] = d
Put(idx, d) ==
    IF IndexOf(idx, d.ip) = 0 THEN Append(idx, d)
    ELSE [idx EXCEPT ![IndexOf(idx, d.ip)] = d]

\* idx = {d.get("ip"): d for d in devices if d.get("ip")}
RECURSIVE BuildIndex(_, _)
BuildIndex(devices, idx) ==
    IF devices = <<>> THEN idx
    ELSE BuildIndex(Tail(devices), Put(idx, Head(devices)))

\* MergeExtra that takes the name and the type of the later record
MergeExtraLastWins(idx, extra) ==
    LET k == IndexOf(idx, extra.ip)
    IN  IF k # 0
        THEN [idx EXCEPT ![k].name = Or(extra.name, idx[k].name),
                         ![k].type = Or(extra.type, idx[k].type)]
        ELSE Append(idx, Dev(extra.ip, Or(extra.name, IpStr(extra.ip)),
                             Or(extra.status, "online"), Or(extra.type, "unknown"),
                             NoMac, None))

\* MergeExtra that never adds a record
MergeExtraKnownOnly(idx, extra) ==
    LET k == IndexOf(idx, extra.ip)
    IN  IF k # 0
        THEN [idx EXCEPT ![k].name = Or(idx[k].name, extra.name),
                         ![k].type = IF idx[k].type # "unknown" THEN idx[k].type
                                     ELSE Or(extra.type, "unknown")]
        ELSE idx

\* one turn of `for extra in ssdp + mdns`
MergeExtra(idx, extra) ==
    LET k == IndexOf(idx, extra.ip)
    IN  IF k # 0
        THEN [idx EXCEPT ![k].name = Or(idx[k].name, extra.name),
                         ![k].type = IF idx[k].type # "unknown" THEN idx[k].type
                                     ELSE Or(extra.type, "unknown")]
        ELSE Append(idx, Dev(extra.ip, Or(extra.name, IpStr(extra.ip)),
                             Or(extra.status, "online"), Or(extra.type, "unknown"),
                             NoMac, None))

\* MergeLease that adds the record of a lease whatever include_offline is
MergeLeaseAlways(idx, lease, include_offline) ==
    LET k == IndexOf(idx, lease.ip)
    IN  IF k # 0
        THEN [idx EXCEPT ![k].mac = OrMac(idx[k].mac, lease.mac),
                         ![k].name = Or(Or(idx[k].name, lease.name), idx[k].name),
                         ![k].vendor = IF Falsy(idx[k].vendor) /\ ~FalsyMac(lease.mac)
                                       THEN vendor_from_mac(lease.mac)
                                       ELSE idx[k].vendor]
        ELSE Append(idx, Dev(lease.ip, Or(lease.name, IpStr(lease.ip)), "offline",
                             "unknown", lease.mac,
                             IF ~FalsyMac(lease.mac) THEN vendor_from_mac(lease.mac)
                             ELSE None))

\* one turn of `for lease in leases`
MergeLease(idx, lease, include_offline) ==
    LET k == IndexOf(idx, lease.ip)
    IN  IF k # 0
        THEN [idx EXCEPT ![k].mac = OrMac(idx[k].mac, lease.mac),
                         ![k].name = Or(Or(idx[k].name, lease.name), idx[k].name),
                         ![k].vendor = IF Falsy(idx[k].vendor) /\ ~FalsyMac(lease.mac)
                                       THEN vendor_from_mac(lease.mac)
                                       ELSE idx[k].vendor]
        ELSE IF include_offline
        THEN Append(idx, Dev(lease.ip, Or(lease.name, IpStr(lease.ip)), "offline",
                             "unknown", lease.mac,
                             IF ~FalsyMac(lease.mac) THEN vendor_from_mac(lease.mac)
                             ELSE None))
        ELSE idx

RECURSIVE MergeExtras(_, _)
MergeExtras(idx, extras) ==
    IF extras = <<>> THEN idx
    ELSE MergeExtras(MergeExtra(idx, Head(extras)), Tail(extras))

RECURSIVE MergeLeases(_, _, _)
MergeLeases(idx, leases, include_offline) ==
    IF leases = <<>> THEN idx
    ELSE MergeLeases(MergeLease(idx, Head(leases), include_offline),
                     Tail(leases), include_offline)

\* the deep_discovery block of scan_network; a source that raised is []
deep_merge(devices, ssdp, mdns, leases, include_offline) ==
    MergeLeases(MergeExtras(BuildIndex(devices, <<>>), ssdp \o mdns),
                leases, include_offline)

\* EnsureStatus that relabels every status other than "online" as "unknown"
EnsureStatusOnlineOnly(d) ==
    IF d.status # "online" THEN [d EXCEPT !.status = "unknown"] ELSE d

\* "Ensure online/offline labels exist"
EnsureStatus(d) ==
    IF d.status \notin {"online", "offline"} THEN [d EXCEPT !.status = "online"] ELSE d

---------------------------------------------------------------------------
(* scan_network on one subnet, block by block *)

Methods == {"auto", "arp-scan", "nmap", "ping", "bogus"}
\* the executables whose lookup decides the backend; a missing ping shows as
\* no probe succeeding (see Answerers)
Tools == {"arp-scan", "nmap"}

Args(subnet, include_offline, method, deep_discovery) ==
    [subnet |-> subnet, include_offline |-> include_offline,
     method |-> method, deep_discovery |-> deep_discovery]

NoArgs == Args(NoSubnet, FALSE, "auto", FALSE)

\* CIDR texts a caller passes: 2 hosts, a /31-like pair, a single host, an invalid text
CidrTexts ==
    { Cidr(1, AddrBits - 2), Cidr(5, AddrBits - 1), Cidr(6, AddrBits),
      Cidr(0, AddrBits + 1) }

\* what discover_local_cidr can return
LocalCidrs == {NoSubnet, Cidr(0, AddrBits - 2)}

Frame(cidr, chosen, backends_tried, devices, raised) ==
    [cidr |-> cidr, chosen |-> chosen, backends_tried |-> backends_tried,
     devices |-> devices, raised |-> raised]

NoFrame == Frame(NoSubnet, "", <<>>, <<>>, FALSE)

\* DecideBackend with the two lookups in the other order
DecideBackendNmapFirst(method, onPath) ==
    IF method = "auto"
    THEN IF "nmap" \in onPath THEN "nmap"
         ELSE IF "arp-scan" \in onPath THEN "arp-scan"
         ELSE "ping"
    ELSE method

\* "Decide backend"
DecideBackend(method, onPath) ==
    IF method = "auto"
    THEN IF "arp-scan" \in onPath THEN "arp-scan"
         ELSE IF "nmap" \in onPath THEN "nmap"
         ELSE "ping"
    ELSE method

\* "1) ARP-SCAN"
ArpBlock(f, run) ==
    LET g == [f EXCEPT !.backends_tried = Append(@, "arp-scan")]
    IN  IF run.rc = 0 /\ run.out # <<>>
        THEN [g EXCEPT !.devices = normalize(parse_arp_scan(run.out))]
        ELSE [g EXCEPT !.chosen = "ping"]

\* "2) NMAP -sn"
NmapBlock(f, run) ==
    LET g == [f EXCEPT !.backends_tried = Append(@, "nmap")]
        parsed == parse_nmap_sn(run.out)
    IN  IF run.rc = 0 /\ run.out # <<>>
        THEN IF parsed.raised THEN [g EXCEPT !.raised = TRUE]
             ELSE [g EXCEPT !.devices = normalize(parsed.devices)]
        ELSE [g EXCEPT !.chosen = "ping"]

\* "3) Concurrent PING sweep"
PingBlock(f, include_offline, answering, order) ==
    LET g == [f EXCEPT !.backends_tried = Append(@, "ping")]
        swept == ping_sweep(f.cidr, include_offline, answering, order)
    IN  IF swept.raised THEN [g EXCEPT !.raised = TRUE]
        ELSE [g EXCEPT !.devices = swept.devices]

\* "Enrich with ARP neighbors" and "Add vendor via OUI DB if missing"
EnrichBlock(f, neighbors) ==
    [f EXCEPT !.devices = FillVendor(merge_mac_vendor(f.devices, neighbors))]

\* the outcome of one enrichment source: a list, or an exception
Outcome(raised, list) == [raised |-> raised, list |-> list]
Failed == Outcome(TRUE, <<>>)
\* Caught that keeps what a source had gathered when it raised
CaughtKeepsGathered(o) == o.list

\* try: x = source() / except Exception: x = []
Caught(o) == IF o.raised THEN <<>> ELSE o.list

SsdpOutcomes == {Failed} \cup {Outcome(FALSE, l) : l \in SourceLists(SsdpDevs)}
MdnsOutcomes == {Failed} \cup {Outcome(FALSE, l) : l \in SourceLists(MdnsDevs)}
LeaseOutcomes == {Failed} \cup {Outcome(FALSE, l) : l \in LeaseLists}

\* "Optional deep discovery (SSDP, mDNS, DHCP leases)"
DeepBlock(f, ssdp, mdns, leases, include_offline) ==
    [f EXCEPT !.devices =
        deep_merge(f.devices, Caught(ssdp), Caught(mdns),
                   discover_dhcp_leases(Caught(leases)), include_offline)]

\* "Ensure online/offline labels exist"
FinalBlock(f) ==
    [f EXCEPT !.devices = [i \in DOMAIN f.devices |-> EnsureStatus(f.devices[i])]]

\* the `if chosen == ...` block that runs next, after the block `after`
BlockOrder == <<"arp-scan", "nmap", "ping">>
BlockIndex(b) == IF b \in Range(BlockOrder)
                 THEN CHOOSE i \in DOMAIN BlockOrder : BlockOrder[i] = b ELSE 0
NextBlock(chosen, after) ==
    IF BlockIndex(chosen) > BlockIndex(after) THEN chosen ELSE "enrich"

\* the sets of probes that can succeed (none when ping is not installed)
Answerers(c) == IF ValidCidr(c) THEN SUBSET Range(hosts(c)) ELSE {{}}
Orders(c) == IF ValidCidr(c) THEN Perms(hosts(c)) ELSE {<<>>}

\* the runs _sh can give for a tool: (1, "") when the executable is missing
RunsOf(tool, runs, onPath) == IF tool \in onPath THEN runs ELSE {Run(1, <<>>)}

---------------------------------------------------------------------------
(* scan_network on one subnet as one function of what the environment does *)

Env(arp, nmap, answering, order, neighbors, ssdp, mdns, leases) ==
    [arp |-> arp, nmap |-> nmap, answering |-> answering, order |-> order,
     neighbors |-> neighbors, ssdp |-> ssdp, mdns |-> mdns, leases |-> leases]

\* what a call gives its caller: a list, or an exception
Ret(kind, list) == [kind |-> kind, list |-> list]
NoRet == Ret("none", <<>>)

scan_single(a, cidr, onPath, e) ==
    LET f0 == Frame(cidr, DecideBackend(a.method, onPath), <<>>, <<>>, FALSE)
        f1 == IF f0.chosen = "arp-scan" THEN ArpBlock(f0, e.arp) ELSE f0
        f2 == IF f1.chosen = "nmap" THEN NmapBlock(f1, e.nmap) ELSE f1
        f3 == IF ~f2.raised /\ f2.chosen = "ping"
              THEN PingBlock(f2, a.include_offline, e.answering, e.order) ELSE f2
        f4 == EnrichBlock(f3, e.neighbors)
        f5 == IF a.deep_discovery
              THEN DeepBlock(f4, e.ssdp, e.mdns, e.leases, a.include_offline) ELSE f4
    IN  IF f3.raised THEN Ret("raised", <<>>) ELSE Ret("list", FinalBlock(f5).devices)

---------------------------------------------------------------------------
(* The state outside one scan_network call                                 *)

\* the enrichment half of scan_network, block by block: where it stands, the
\* include_offline argument, the base list the backend gave, the device list
\* (the index, once built), what _arp_neighbors and each deep-discovery source
\* gave, and the loop counter
DeepState(at, include_offline, base, devices, neighbors, ssdp, mdns, leases, i) ==
    [at |-> at, include_offline |-> include_offline, base |-> base,
     devices |-> devices, neighbors |-> neighbors, ssdp |-> ssdp, mdns |-> mdns,
     leases |-> leases, i |-> i]

NoOutcome == Outcome(FALSE, <<>>)
NoDeep == DeepState("off", FALSE, <<>>, <<>>, <<>>, NoOutcome, NoOutcome, NoOutcome, 0)

\* discover_all_local_cidrs: where it stands, what `ip -j addr` printed (one
\* entry per address, in order), whether the ip tool runs, the device of the
\* default route, what the host name resolves to, the loop counter, cidrs,
\* whether the fallback gave the list, and the returned list
DiscState(at, data, tool, dev, host, i, cidrs, fallback, out) ==
    [at |-> at, data |-> data, tool |-> tool, dev |-> dev, host |-> host,
     i |-> i, cidrs |-> cidrs, fallback |-> fallback, out |-> out]

NoDisc == DiscState("off", <<>>, FALSE, <<>>, <<>>, 0, <<>>, FALSE, <<>>)

\* _vendor_from_mac: the argument, whether the call returned, and its result;
\* _normalize_mac: the same argument, what the call gave (once) and what the
\* call on that result gave (twice)
LookupState(at, mac, vendor) ==
    [at |-> at, mac |-> mac, vendor |-> vendor, once |-> NoMac, twice |-> NoMac]

NoLookup == LookupState("off", NoMac, None)

\* a key that a dictionary or a JSON body does not have
Missing == "<missing>"

\* a job dictionary: its keys, and the value under each key it has
Job(keys, status, progress, result, error, duration) ==
    [keys |-> keys, status |-> status, progress |-> progress, result |-> result,
     error |-> error, duration |-> duration]

\* the locals of one _run_scan_job thread
Worker(at, params, start_ts, res, rec, exc) ==
    [at |-> at, params |-> params, start_ts |-> start_ts, res |-> res, rec |-> rec,
     exc |-> exc]

JobsIdle == JOBS = <<>> /\ workers = <<>> /\ history = <<>> /\ clock = 0

\* a value of _OUI_CACHE: None, or a dictionary
Cache(set, table) == [set |-> set, table |-> table]
NoCache == Cache(FALSE, <<>>)

\* one thread in _vendor_from_mac: where it stands, its argument, the
\* dictionary it loaded, the dictionary _load_oui_map returned, its result
Caller(at, mac, loaded, oui, vendor) ==
    [at |-> at, mac |-> mac, loaded |-> loaded, oui |-> oui, vendor |-> vendor]

OuiIdle == OUI_CACHE = NoCache /\ oui_file = FALSE /\ callers = <<>>

\* a file: whether it can be read, and its lines
File(exists, lines) == [exists |-> exists, lines |-> lines]
NoFile == File(FALSE, <<>>)

\* discover_dhcp_leases: where it stands, the two files, the list so far
LeasingState(at, dnsmasq, dhcpd, leases) ==
    [at |-> at, dnsmasq |-> dnsmasq, dhcpd |-> dhcpd, leases |-> leases]
NoLeasing == LeasingState("off", NoFile, NoFile, <<>>)

\* what _validate_and_render returns: (ok, value); value is the message, or
\* the rendered command as the sequence of its pieces
Rendered(ok, msg, pieces) == [ok |-> ok, msg |-> msg, pieces |-> pieces]
NotRendered == Rendered(FALSE, "", <<>>)

\* one run_task call: where it stands, the task, the params, what
\* _validate_and_render gave, the command line handed to subprocess.run,
\* and the returned pair
TaskRun(at, task, params, rendered, argv, returned) ==
    [at |-> at, task |-> task, params |-> params, rendered |-> rendered,
     argv |-> argv, ret |-> returned]
NoTaskRun ==
    TaskRun("off", [command |-> <<>>, mode |-> "host", params |-> <<>>], <<>>,
            NotRendered, <<>>, [code |-> 0, out |-> ""])

\* what bash was handed by one request: nothing, or the mode, the working
\* directory and the command that went into "cd <cwd> ; <cmd>", and that text
NoBash == [ran |-> FALSE, mode |-> "off", cwd |-> <<>>, cmd |-> <<>>, wrapped |-> <<>>]

\* the terminal endpoint: EXEC_MODE with the ALLOW_* switches, _CWD_MAP, the
\* number of requests served, what the last request handed to bash, its response
Term(mode, cwdmap, served, bash, reply) ==
    [mode |-> mode, CWD_MAP |-> cwdmap, served |-> served, bash |-> bash, reply |-> reply]
NoReply == [status |-> 0, body |-> ""]

\* _session_key: the X-Term-Session header, else the remote address
Sessions == {"tab-1", "tab-2"}

\* _CWD_MAP.get(key): a session without an entry reads as the empty text, which
\* `or` replaces by the default like a missing one
NoCwds == [k \in Sessions |-> <<>>]
NoTerm == Term("off", NoCwds, 0, NoBash, NoReply)

LaterIdle ==
    /\ JobsIdle /\ OuiIdle /\ leasing = NoLeasing /\ taskrun = NoTaskRun
    /\ term = NoTerm

ElsewhereIdle == deep = NoDeep /\ disc = NoDisc /\ lookup = NoLookup /\ LaterIdle

---------------------------------------------------------------------------
(* The call scan_network(subnet, include_offline, method, deep_discovery)  *)
(* with a CIDR or None as subnet                                           *)

Init ==
    /\ path \in SUBSET Tools
    /\ pc = "idle"
    /\ args = NoArgs
    /\ frame = NoFrame
    /\ ret = NoRet
    /\ subnets = <<>>
    /\ pool = <<>>
    /\ results = <<>>
    /\ merged = <<>>
    /\ probe = {}
    /\ pair = <<NoRet, NoRet>>
    /\ ElsewhereIdle

\* the call, up to `if not cidr: return []`
Enter ==
    /\ pc = "idle"
    /\ \E subnet \in {NoSubnet} \cup CidrTexts, include_offline \in BOOLEAN,
          method \in Methods, deep_discovery \in BOOLEAN, local \in LocalCidrs :
          LET cidr == IF subnet = NoSubnet THEN local ELSE subnet
          IN  /\ args' = Args(subnet, include_offline, method, deep_discovery)
              /\ IF cidr = NoSubnet
                 THEN /\ pc' = "done"
                      /\ ret' = Ret("list", <<>>)
                      /\ frame' = frame
                 ELSE /\ pc' = "choose"
                      /\ ret' = ret
                      /\ frame' = Frame(cidr, "", <<>>, <<>>, FALSE)
    /\ UNCHANGED <<elsewhere, path, subnets, pool, results, merged, probe, pair>>

ChooseBackend ==
    /\ pc = "choose"
    /\ frame' = [frame EXCEPT !.chosen = DecideBackend(args.method, path)]
    /\ pc' = NextBlock(frame'.chosen, "")
    /\ UNCHANGED <<elsewhere, path, args, ret, subnets, pool, results, merged, probe, pair>>

\* where the call stands after a block
After(f, block) == IF f.raised THEN "raised" ELSE NextBlock(f.chosen, block)

RunArpScan ==
    /\ pc = "arp-scan"
    /\ \E run \in RunsOf("arp-scan", ArpRuns, path) :
          /\ frame' = ArpBlock(frame, run)
          /\ pc' = After(frame', "arp-scan")
    /\ ret' = ret
    /\ UNCHANGED <<elsewhere, path, args, subnets, pool, results, merged, probe, pair>>

RunNmap ==
    /\ pc = "nmap"
    /\ \E run \in RunsOf("nmap", NmapRuns, path) :
          /\ frame' = NmapBlock(frame, run)
          /\ pc' = After(frame', "nmap")
    /\ ret' = IF pc' = "raised" THEN Ret("raised", <<>>) ELSE ret
    /\ UNCHANGED <<elsewhere, path, args, subnets, pool, results, merged, probe, pair>>

RunPingSweep ==
    /\ pc = "ping"
    /\ \E answering \in Answerers(frame.cidr), order \in Orders(frame.cidr) :
          /\ frame' = PingBlock(frame, args.include_offline, answering, order)
          /\ probe' = answering
          /\ pc' = After(frame', "ping")
    /\ ret' = IF pc' = "raised" THEN Ret("raised", <<>>) ELSE ret
    /\ UNCHANGED <<elsewhere, path, args, subnets, pool, results, merged, pair>>

Enrich ==
    /\ pc = "enrich"
    /\ \E neighbors \in NeighborTables : frame' = EnrichBlock(frame, neighbors)
    /\ pc' = IF args.deep_discovery THEN "deep" ELSE "final"
    /\ UNCHANGED <<elsewhere, path, args, ret, subnets, pool, results, merged, probe, pair>>

DeepDiscovery ==
    /\ pc = "deep"
    /\ \E ssdp \in SsdpOutcomes, mdns \in MdnsOutcomes, leases \in LeaseOutcomes :
          frame' = DeepBlock(frame, ssdp, mdns, leases, args.include_offline)
    /\ pc' = "final"
    /\ UNCHANGED <<elsewhere, path, args, ret, subnets, pool, results, merged, probe, pair>>

Return ==
    /\ pc = "final"
    /\ frame' = FinalBlock(frame)
    /\ ret' = Ret("list", frame'.devices)
    /\ pc' = "done"
    /\ UNCHANGED <<elsewhere, path, args, subnets, pool, results, merged, probe, pair>>

NextSingle ==
    \/ Enter
    \/ ChooseBackend
    \/ RunArpScan
    \/ RunNmap
    \/ RunPingSweep
    \/ Enrich
    \/ DeepDiscovery
    \/ Return

SpecSingle == Init /\ [][NextSingle]_vars

---------------------------------------------------------------------------
(* scan_network(subnet="all"): one scan per discovered CIDR on a thread    *)
(* pool, merged by ip in the order the scans complete                      *)

PoolCap == 8

Min(a, b) == IF a < b THEN a ELSE b
Max(a, b) == IF a > b THEN a ELSE b

\* max_workers without the floor of one worker
max_workers_unfloored(n) == Min(PoolCap, n)

\* ThreadPoolExecutor(max_workers=min(8, max(1, len(subnets))))
max_workers(n) == Min(PoolCap, Max(1, n))

\* what discover_all_local_cidrs can return: lists of distinct CIDR texts
LocalNets == {Cidr(0, AddrBits - 2), Cidr(4, AddrBits - 2)}
SubnetLists ==
    {l \in SeqUpTo(LocalNets, Cardinality(LocalNets)) :
        \A i, j \in DOMAIN l : i # j => l[i] # l[j]}

\* what the environment does during one per-subnet scan
WorkerArpRuns ==
    { Run(1, <<>>),
      Run(0, <<ArpLine("fields", <<1, MacLower, "VendorX">>)>>),
      Run(0, <<ArpLine("fields", <<1, MacOther>>), ArpLine("fields", <<1, MacLower>>)>>) }
WorkerNmapRuns ==
    { Run(1, <<>>),
      Run(0, <<NmapLine("report", TRUE, "router", 1, NoMac, None)>>),
      Run(0, <<NmapLine("macbare", FALSE, None, BadTok, NoMac, None)>>) }
\* <<neighbor table, SSDP outcome, lease outcome>>
WorkerEnrichments ==
    { <<<<>>, Failed, Outcome(FALSE, <<>>)>>,
      <<[ip \in {1} |-> MacLower],
        Outcome(FALSE, <<SourceDev(2, "Server/1.0", "ssdp")>>),
        Outcome(FALSE, <<Lease(2, MacLower, "")>>)>> }
WorkerAnswerers(c) == {{}, {hosts(c)[1]}, Range(hosts(c))}

WorkerEnvs(a, cidr, onPath) ==
    LET first == DecideBackend(a.method, onPath)
    IN  { Env(arp, nmap, answering, order, en[1], en[2], Outcome(FALSE, <<>>), en[3]) :
            arp \in IF first = "arp-scan"
                    THEN RunsOf("arp-scan", WorkerArpRuns, onPath) ELSE {Run(1, <<>>)},
            nmap \in IF first = "nmap"
                     THEN RunsOf("nmap", WorkerNmapRuns, onPath) ELSE {Run(1, <<>>)},
            answering \in WorkerAnswerers(cidr),
            order \in Orders(cidr),
            en \in WorkerEnrichments }

Future(state, result) == [state |-> state, result |-> result]

Running == Cardinality({i \in DOMAIN pool : pool[i].state = "running"})

\* MergeInto without the `ip not in results` test: the last writer wins
RECURSIVE MergeIntoLastWins(_, _)
MergeIntoLastWins(dict, lst) ==
    IF lst = <<>> THEN dict
    ELSE MergeIntoLastWins(Put(dict, Head(lst)), Tail(lst))

\* for dev in lst: if ip and ip not in results: results[ip] = dev
RECURSIVE MergeInto(_, _)
MergeInto(dict, lst) ==
    IF lst = <<>> THEN dict
    ELSE MergeInto(IF IndexOf(dict, Head(lst).ip) = 0 THEN Append(dict, Head(lst)) ELSE dict,
                   Tail(lst))

\* lst = fut.result() or [] / except Exception: lst = []
ResultOrEmpty(r) == IF r.kind = "list" THEN r.list ELSE <<>>

\* the call with subnet="all": discover the CIDRs and submit one scan for each
EnterAll ==
    /\ pc = "idle"
    /\ \E include_offline \in BOOLEAN, method \in Methods \ {"bogus"},
          deep_discovery \in BOOLEAN, found \in SubnetLists :
          /\ args' = Args(AllSubnets, include_offline, method, deep_discovery)
          /\ subnets' = found
          /\ IF max_workers(Len(found)) >= 1
             THEN /\ pool' = [i \in DOMAIN found |-> Future("queued", NoRet)]
                  /\ pc' = "all"
                  /\ ret' = ret
             ELSE \* ThreadPoolExecutor: ValueError, max_workers must be greater than 0
                  /\ pool' = pool
                  /\ pc' = "raised"
                  /\ ret' = Ret("raised", <<>>)
    /\ UNCHANGED <<elsewhere, path, frame, results, merged, probe, pair>>

\* a pool thread takes a queued scan
WorkerStart(i) ==
    /\ pc = "all"
    /\ pool[i].state = "queued"
    /\ Running < max_workers(Len(pool))
    /\ pool' = [pool EXCEPT ![i].state = "running"]
    /\ UNCHANGED <<elsewhere, path, pc, args, frame, ret, subnets, results, merged, probe, pair>>

\* the scan of subnet i returns or raises
WorkerFinish(i) ==
    /\ pc = "all"
    /\ pool[i].state = "running"
    /\ \E e \in WorkerEnvs(args, subnets[i], path) :
          pool' = [pool EXCEPT ![i] =
                      Future("done", scan_single(args, subnets[i], path, e))]
    /\ UNCHANGED <<elsewhere, path, pc, args, frame, ret, subnets, results, merged, probe, pair>>

\* as_completed yields future i; its devices are merged
MergeFuture(i) ==
    /\ pc = "all"
    /\ pool[i].state = "done"
    /\ results' = MergeInto(results, ResultOrEmpty(pool[i].result))
    /\ merged' = Append(merged, i)
    /\ pool' = [pool EXCEPT ![i].state = "merged"]
    /\ UNCHANGED <<elsewhere, path, pc, args, frame, ret, subnets, probe, pair>>

\* return list(results.values())
ReturnAll ==
    /\ pc = "all"
    /\ \A i \in DOMAIN pool : pool[i].state = "merged"
    /\ ret' = Ret("list", results)
    /\ pc' = "done"
    /\ UNCHANGED <<elsewhere, path, args, frame, subnets, pool, results, merged, probe, pair>>

NextAll ==
    \/ EnterAll
    \/ \E i \in DOMAIN pool : WorkerStart(i)
    \/ \E i \in DOMAIN pool : WorkerFinish(i)
    \/ \E i \in DOMAIN pool : MergeFuture(i)
    \/ ReturnAll

Next == NextSingle \/ NextAll

Spec == Init /\ [][Next]_vars

---------------------------------------------------------------------------
(* Two ping scans of one CIDR with the same hosts answering: one with      *)
(* include_offline=True, one with include_offline=False                    *)

PairArgs(cidr, include_offline) == Args(cidr, include_offline, "ping", FALSE)

PairEnv(answering, order, neighbors) ==
    Env(Run(1, <<>>), Run(1, <<>>), answering, order, neighbors, Failed, Failed, Failed)

InitPair ==
    /\ path \in SUBSET Tools
    /\ pc = "pair"
    /\ \E cidr \in {c \in CidrTexts : ValidCidr(c)} :
          /\ args = PairArgs(cidr, FALSE)
          /\ probe \in Answerers(cidr)
    /\ frame = NoFrame
    /\ ret = NoRet
    /\ subnets = <<>>
    /\ pool = <<>>
    /\ results = <<>>
    /\ merged = <<>>
    /\ pair = <<NoRet, NoRet>>
    /\ ElsewhereIdle

\* scan_network(cidr, include_offline=True, method="ping")
ScanWithOffline ==
    /\ pair[1] = NoRet
    /\ \E order \in Orders(args.subnet), neighbors \in NeighborTables :
          pair' = [pair EXCEPT ![1] =
                      scan_single(PairArgs(args.subnet, TRUE), args.subnet, path,
                                  PairEnv(probe, order, neighbors))]
    /\ UNCHANGED <<elsewhere, path, pc, args, frame, ret, subnets, pool, results, merged, probe>>

\* scan_network(cidr, include_offline=False, method="ping")
ScanOnlineOnly ==
    /\ pair[2] = NoRet
    /\ \E order \in Orders(args.subnet), neighbors \in NeighborTables :
          pair' = [pair EXCEPT ![2] =
                      scan_single(PairArgs(args.subnet, FALSE), args.subnet, path,
                                  PairEnv(probe, order, neighbors))]
    /\ UNCHANGED <<elsewhere, path, pc, args, frame, ret, subnets, pool, results, merged, probe>>

NextPair == ScanWithOffline \/ ScanOnlineOnly

SpecPair == InitPair /\ [][NextPair]_vars

---------------------------------------------------------------------------
(* The enrichment half of scan_network, from "Enrich with ARP neighbors"   *)
(* to the return, on the base list a backend gave: one block and one loop  *)
(* turn at a time                                                          *)

ScanIdle ==
    /\ path = {}
    /\ pc = "off"
    /\ args = NoArgs
    /\ frame = NoFrame
    /\ ret = NoRet
    /\ subnets = <<>>
    /\ pool = <<>>
    /\ results = <<>>
    /\ merged = <<>>
    /\ probe = {}
    /\ pair = <<NoRet, NoRet>>

\* the lists the three backends give for the tool outputs and CIDRs above
BaseLists(include_offline) ==
    {normalize(parse_arp_scan(r.out)) : r \in {x \in ArpRuns : x.rc = 0 /\ x.out # <<>>}}
        \cup {normalize(parse_nmap_sn(r.out).devices) :
                 r \in {x \in NmapRuns : x.rc = 0 /\ x.out # <<>>
                                             /\ ~parse_nmap_sn(x.out).raised}}
        \cup UNION {{ping_sweep(c, include_offline, answering, order).devices :
                        answering \in Answerers(c), order \in Orders(c)} :
                    c \in {x \in CidrTexts : ValidCidr(x)}}

\* a source record that carries a mac: what scan_network is handed when
\* discover_ssdp_devices is replaced by a source that knows the mac
SsdpWithMac == Dev(1, "other", "online", "ssdp", MacUpper, None)

\* an outcome that raised carries what the source had gathered by then
DeepSsdpOutcomes ==
    SsdpOutcomes \cup {Outcome(TRUE, <<SourceDev(5, IpStr(5), "ssdp")>>),
                       Outcome(FALSE, <<SsdpWithMac>>)}
DeepMdnsOutcomes ==
    MdnsOutcomes \cup {Outcome(TRUE, <<SourceDev(2, "printer._http._tcp.local.", "mdns")>>)}
DeepLeaseOutcomes ==
    LeaseOutcomes \cup {Outcome(TRUE, <<Lease(6, <<>>, "tv")>>)}

AsFrame(devices) == Frame(NoSubnet, "", <<>>, devices, FALSE)

\* ssdp + mdns, and leases, as the merge loops see them
Extras == Caught(deep.ssdp) \o Caught(deep.mdns)
Leases == discover_dhcp_leases(Caught(deep.leases))

\* what the enrichment half leaves alone
offDeep == <<scanVars, disc, lookup, later>>

InitDeep ==
    /\ ScanIdle
    /\ disc = NoDisc
    /\ lookup = NoLookup
    /\ LaterIdle
    /\ \E include_offline \in BOOLEAN :
          \E base \in BaseLists(include_offline) :
             deep = DeepState("enrich", include_offline, base, base, <<>>,
                              NoOutcome, NoOutcome, NoOutcome, 0)

DeepEnrich ==
    /\ deep.at = "enrich"
    /\ \E neighbors \in NeighborTables :
          deep' = [deep EXCEPT !.neighbors = neighbors,
                               !.devices = EnrichBlock(AsFrame(deep.devices), neighbors).devices,
                               !.at = "ssdp"]
    /\ UNCHANGED offDeep

DeepSsdp ==
    /\ deep.at = "ssdp"
    /\ \E o \in DeepSsdpOutcomes : deep' = [deep EXCEPT !.ssdp = o, !.at = "mdns"]
    /\ UNCHANGED offDeep

DeepMdns ==
    /\ deep.at = "mdns"
    /\ \E o \in DeepMdnsOutcomes : deep' = [deep EXCEPT !.mdns = o, !.at = "leases"]
    /\ UNCHANGED offDeep

DeepLeases ==
    /\ deep.at = "leases"
    /\ \E o \in DeepLeaseOutcomes : deep' = [deep EXCEPT !.leases = o, !.at = "index"]
    /\ UNCHANGED offDeep

\* where the merge stands when turn i of a loop is next: <<at, i>>
LeasesFrom(i) == IF i <= Len(Leases) THEN <<"lease-loop", i>> ELSE <<"final", 0>>
ExtrasFrom(i) == IF i <= Len(Extras) THEN <<"extras", i>> ELSE LeasesFrom(1)

\* idx = {d.get("ip"): d for d in devices if d.get("ip")}
DeepIndex ==
    /\ deep.at = "index"
    /\ deep' = [deep EXCEPT !.devices = BuildIndex(deep.devices, <<>>),
                            !.at = ExtrasFrom(1)[1], !.i = ExtrasFrom(1)[2]]
    /\ UNCHANGED offDeep

\* one turn of `for extra in ssdp + mdns`
DeepMergeExtra ==
    /\ deep.at = "extras"
    /\ deep' = [deep EXCEPT !.devices = MergeExtra(deep.devices, Extras[deep.i]),
                            !.at = ExtrasFrom(deep.i + 1)[1],
                            !.i = ExtrasFrom(deep.i + 1)[2]]
    /\ UNCHANGED offDeep

\* one turn of `for lease in leases`
DeepMergeLease ==
    /\ deep.at = "lease-loop"
    /\ deep' = [deep EXCEPT !.devices = MergeLease(deep.devices, Leases[deep.i],
                                                   deep.include_offline),
                            !.at = LeasesFrom(deep.i + 1)[1],
                            !.i = LeasesFrom(deep.i + 1)[2]]
    /\ UNCHANGED offDeep

\* "Ensure online/offline labels exist" and the return
DeepFinal ==
    /\ deep.at = "final"
    /\ deep' = [deep EXCEPT !.devices = FinalBlock(AsFrame(deep.devices)).devices,
                            !.at = "done"]
    /\ UNCHANGED offDeep

NextDeep ==
    \/ DeepEnrich
    \/ DeepSsdp
    \/ DeepMdns
    \/ DeepLeases
    \/ DeepIndex
    \/ DeepMergeExtra
    \/ DeepMergeLease
    \/ DeepFinal

SpecDeep == InitDeep /\ [][NextDeep]_vars

---------------------------------------------------------------------------
(* discover_local_cidr and discover_all_local_cidrs.  An address is its    *)
(* four octets; a network is its masked address and its prefix length,     *)
(* which is what str(net) prints.  An interface name is its characters.    *)

MaxAddrInfos == 2      \* addresses that `ip -j addr` lists
max_prefix == 30

NoAddr == <<>>         \* no address: a missing "local", a failed lookup
NoPrefix == 0 - 1      \* a missing "prefixlen"
NoDev == <<>>          \* no default route

Net(octets, prefixlen) == [octets |-> octets, prefixlen |-> prefixlen]

\* the leading bits of octet k that a prefix of length p covers
KeptBits(p, k) == Max(0, Min(8, p - 8 * (k - 1)))

\* ipaddress.ip_network(f"{local}/{prefix}", strict=False): [raised, net]
ip_network(local, prefix) ==
    IF prefix \notin 0..32 THEN [raised |-> TRUE, net |-> Net(local, 0)]
    ELSE [raised |-> FALSE,
          net |-> Net([k \in 1..4 |->
                          local[k] - (local[k] % (2 ^ (8 - KeptBits(prefix, k))))],
                      prefix)]

\* one addr_info entry of one interface
AddrInfo(ifname, family, local, prefixlen) ==
    [ifname |-> ifname, family |-> family, local |-> local, prefixlen |-> prefixlen]

IfEth == <<"e", "t", "h", "0">>
IfLo == <<"l", "o">>

\* ifname.startswith("lo")
StartsWithLo(ifname) == Len(ifname) >= 2 /\ ifname[1] = "l" /\ ifname[2] = "o"

Locals ==
    { <<10, 1, 2, 3>>, <<11, 1, 2, 3>>, <<169, 254, 7, 9>>, <<172, 20, 0, 5>>,
      <<192, 168, 1, 5>> }
PrefixLens == {7, 8, 24, 30, 31}

AddrInfos ==
    {AddrInfo(IfEth, "inet", l, p) : l \in Locals, p \in PrefixLens}
        \cup { AddrInfo(IfLo, "inet", <<127, 0, 0, 1>>, 8),
               AddrInfo(IfEth, "inet", <<127, 0, 0, 5>>, 8),
               AddrInfo(IfEth, "inet6", NoAddr, 64) }

\* what socket.gethostbyname(socket.gethostname()) gives
HostAddrs == {NoAddr, <<127, 0, 1, 1>>, <<192, 168, 1, 5>>}

\* the filters of the loop body, and the append: one addr_info entry
VisitAddr(cidrs, e) ==
    IF e.ifname = <<>> \/ StartsWithLo(e.ifname) THEN cidrs
    ELSE IF e.family # "inet" THEN cidrs
    ELSE IF e.local = NoAddr \/ e.prefixlen = NoPrefix THEN cidrs
    ELSE IF e.local[1] = 127 THEN cidrs
    ELSE IF ip_network(e.local, e.prefixlen).raised THEN cidrs
    ELSE LET net == ip_network(e.local, e.prefixlen).net
             o == net.octets
         IN  IF o[1] = 169 /\ o[2] = 254 THEN cidrs
             ELSE IF net.prefixlen <= 8
                     /\ ~(o[1] = 10 \/ o[1] = 172 \/ (o[1] = 192 /\ o[2] = 168))
                  THEN cidrs
             ELSE IF net.prefixlen > max_prefix THEN cidrs
             ELSE IF net \in Range(cidrs) THEN cidrs
             ELSE Append(cidrs, net)

\* discover_local_cidr: a list of no network (None) or one
discover_local_cidr(tool, data, dev, host) ==
    LET Usable(e) ==
            /\ e.ifname = dev
            /\ e.family = "inet"
            /\ e.local # NoAddr /\ e.prefixlen # NoPrefix
            /\ ~ip_network(e.local, e.prefixlen).raised
        usable == SelectSeq(data, Usable)
    IN  IF tool /\ dev # NoDev /\ usable # <<>>
        THEN <<ip_network(usable[1].local, usable[1].prefixlen).net>>
        ELSE IF host = NoAddr THEN <<>>
        ELSE IF host[1] = 127 THEN <<>>
        ELSE <<ip_network(host, 24).net>>

\* what discover_all_local_cidrs leaves alone
offDisc == <<scanVars, deep, lookup, later>>

InitDisc ==
    /\ ScanIdle
    /\ deep = NoDeep
    /\ lookup = NoLookup
    /\ LaterIdle
    /\ \E tool \in BOOLEAN, host \in HostAddrs :
          \E data \in IF tool THEN SeqUpTo(AddrInfos, MaxAddrInfos) ELSE {<<>>},
             dev \in IF tool THEN {NoDev, IfEth} ELSE {NoDev} :
             disc = DiscState("loop", data, tool, dev, host, 1, <<>>, FALSE, <<>>)

\* one addr_info entry of `for iface in data: for addrinfo in ...`
DiscVisit ==
    /\ disc.at = "loop"
    /\ disc.i <= Len(disc.data)
    /\ disc' = [disc EXCEPT !.cidrs = VisitAddr(disc.cidrs, disc.data[disc.i]),
                            !.i = disc.i + 1]
    /\ UNCHANGED offDisc

\* `if not cidrs`: the fallback to discover_local_cidr, and the return
DiscFallback ==
    /\ disc.at = "loop"
    /\ disc.i > Len(disc.data)
    /\ disc.cidrs = <<>>
    /\ LET c == discover_local_cidr(disc.tool, disc.data, disc.dev, disc.host)
       IN  disc' = [disc EXCEPT !.cidrs = c, !.fallback = TRUE, !.out = c,
                                !.at = "done"]
    /\ UNCHANGED offDisc

\* the return of the enumerated list
DiscReturn ==
    /\ disc.at = "loop"
    /\ disc.i > Len(disc.data)
    /\ disc.cidrs # <<>>
    /\ disc' = [disc EXCEPT !.out = disc.cidrs, !.at = "done"]
    /\ UNCHANGED offDisc

NextDisc == DiscVisit \/ DiscFallback \/ DiscReturn

SpecDisc == InitDisc /\ [][NextDisc]_vars

---------------------------------------------------------------------------
(* _vendor_from_mac on the texts a caller can pass                         *)

MaxPad == 1            \* blanks before and after a MAC text

Spaces(n) == [i \in 1..n |-> " "]

\* str.lower() on one character of an octet
Lower(c) ==
    CASE c = "A" -> "a" [] c = "B" -> "b" [] c = "C" -> "c"
      [] c = "D" -> "d" [] c = "E" -> "e" [] c = "F" -> "f"
      [] c = "Z" -> "z" [] OTHER -> c

\* six octets: with the prefix of the OUI table, with another prefix
KnownOctets == <<<<"A", "A">>, <<"B", "B">>, <<"C", "C">>,
                 <<"0", "1">>, <<"0", "2">>, <<"0", "3">>>>
OtherOctets == <<<<"0", "0">>, <<"1", "1">>, <<"2", "2">>,
                 <<"D", "D">>, <<"E", "E">>, <<"F", "F">>>>

Cased(octets, lower) ==
    IF lower THEN [i \in DOMAIN octets |-> <<Lower(octets[i][1]), Lower(octets[i][2])>>]
    ELSE octets

\* texts that are not six octets of hex digits
Damages == {"none", "short", "long", "nothex"}
Damaged(octets, damage) ==
    CASE damage = "short" -> SubSeq(octets, 1, 5)
      [] damage = "long" -> Append(octets, <<"0", "4">>)
      [] damage = "nothex" -> [octets EXCEPT ![6] = <<"Z", "Z">>]
      [] OTHER -> octets

MacTexts ==
    {NoMac, <<>>, <<" ">>}
        \cup {Spaces(lead) \o JoinOctets(Cased(Damaged(octets, damage), lower), sep)
                  \o Spaces(trail) :
                 octets \in {KnownOctets, OtherOctets}, damage \in Damages,
                 lower \in BOOLEAN, sep \in {":", "-", "."},
                 lead \in 0..MaxPad, trail \in 0..MaxPad}

\* what _vendor_from_mac leaves alone
offLookup == <<scanVars, deep, disc, later>>

InitLookup ==
    /\ ScanIdle
    /\ deep = NoDeep
    /\ disc = NoDisc
    /\ LaterIdle
    /\ \E mac \in MacTexts : lookup = LookupState("call", mac, None)

\* _vendor_from_mac(mac)
VendorFromMac ==
    /\ lookup.at = "call"
    /\ lookup' = [lookup EXCEPT !.vendor = vendor_from_mac(lookup.mac), !.at = "done"]
    /\ UNCHANGED offLookup

\* _normalize_mac(mac) on a str
NormalizeMac ==
    /\ lookup.at = "call"
    /\ lookup.mac # NoMac
    /\ lookup' = [lookup EXCEPT !.once = normalize_mac(lookup.mac), !.at = "once"]
    /\ UNCHANGED offLookup

\* _normalize_mac on what _normalize_mac returned
NormalizeAgain ==
    /\ lookup.at = "once"
    /\ lookup' = [lookup EXCEPT !.twice = normalize_mac(lookup.once), !.at = "twice"]
    /\ UNCHANGED offLookup

NextLookup == VendorFromMac \/ NormalizeMac \/ NormalizeAgain

SpecLookup == InitLookup /\ [][NextLookup]_vars

---------------------------------------------------------------------------
(* Background scan jobs (ez_panel/app.py): POST /api/scan/start and the    *)
(* thread it starts.  A job id is the position of the job in the table:    *)
(* uuid4 gives every job an id of its own.  time.time() is a clock that    *)
(* has moved whenever a history record reads it.                           *)

MaxJobs == 2           \* jobs started

\* the JSON body of a POST /api/scan/start
Payload(subnet, method, include_offline, deep_) ==
    [subnet |-> subnet, method |-> method, include_offline |-> include_offline,
     deep |-> deep_]

Payloads ==
    {Payload(Missing, Missing, Missing, "false"),
     Payload("all", "ping", "true", Missing)}

\* dict.get(key, default)
Get(v, default) == IF v = Missing THEN default ELSE v
\* bool() of a JSON true or false
Bool(v) == v = "true"

\* the params dictionary of scan_start
scan_params(payload) ==
    [subnet |-> Get(payload.subnet, None),
     method |-> Get(payload.method, "auto"),
     include_offline |-> Bool(Get(payload.include_offline, "false")),
     deep |-> Bool(Get(payload.deep, "false"))]

\* dict.update with the keys of `fields`
Update(job, fields) ==
    [k \in DOMAIN job |->
        IF k = "keys" THEN job.keys \cup DOMAIN fields
        ELSE IF k \in DOMAIN fields THEN fields[k] ELSE job[k]]

NewJob == Job({"status", "progress"}, "queued", 0, <<>>, "", 0)
NoRec == [ts |-> 0 - 1, params |-> scan_params(Payload(Missing, Missing, Missing, Missing)),
          result |-> <<>>]

\* what scan_network gives a job: a list, or an exception
JobScans ==
    {Ret("ok", <<Dev(1, "host1", "online", "unknown", NoMac, None)>>),
     Ret("raised", <<>>)}

\* what the job threads leave alone
offJobs == <<scanVars, deep, disc, lookup, ouiVars, leasing, taskrun, term>>

InitJobs ==
    /\ ScanIdle
    /\ deep = NoDeep
    /\ disc = NoDisc
    /\ lookup = NoLookup
    /\ JobsIdle
    /\ OuiIdle
    /\ leasing = NoLeasing
    /\ taskrun = NoTaskRun
    /\ term = NoTerm

\* POST /api/scan/start
scan_start ==
    /\ Len(JOBS) < MaxJobs
    /\ \E payload \in Payloads :
          /\ JOBS' = Append(JOBS, NewJob)
          /\ workers' = Append(workers,
                               Worker("start", scan_params(payload), 0, <<>>, NoRec, ""))
    /\ UNCHANGED <<history, clock, offJobs>>

\* _run_scan_job, lines 436-439
JobRunning(j) ==
    /\ workers[j].at = "start"
    /\ JOBS' = [JOBS EXCEPT ![j] = Update(@, [status |-> "running", progress |-> 5])]
    /\ workers' = [workers EXCEPT ![j].start_ts = clock, ![j].at = "scan"]
    /\ UNCHANGED <<history, clock, offJobs>>

\* _run_scan_job, lines 440-445: scan_network returns or raises
JobScan(j) ==
    /\ workers[j].at = "scan"
    /\ \E r \in JobScans :
          workers' = [workers EXCEPT ![j] =
              IF r.kind = "raised" THEN [@ EXCEPT !.exc = "scan failed", !.at = "except"]
              ELSE [@ EXCEPT !.res = r.list, !.at = "completed"]]
    /\ UNCHANGED <<JOBS, history, clock, offJobs>>

\* _run_scan_job, lines 446-452
JobCompleted(j) ==
    /\ workers[j].at = "completed"
    /\ JOBS' = [JOBS EXCEPT ![j] =
            Update(@, [status |-> "completed", progress |-> 100,
                       result |-> workers[j].res,
                       duration |-> clock - workers[j].start_ts])]
    /\ workers' = [workers EXCEPT ![j].at = "append"]
    /\ UNCHANGED <<history, clock, offJobs>>

\* _run_scan_job, lines 454-456: the line is written, or open or write raises
JobAppend(j) ==
    /\ workers[j].at = "append"
    /\ LET rec == [ts |-> clock, params |-> workers[j].params, result |-> workers[j].res]
       IN  \E written \in BOOLEAN :
             IF written
             THEN /\ history' = Append(history, rec)
                  /\ workers' = [workers EXCEPT ![j].rec = rec, ![j].at = "done"]
             ELSE /\ history' = history
                  /\ workers' = [workers EXCEPT ![j].rec = rec,
                                     ![j].exc = "history not written", ![j].at = "except"]
    /\ clock' = clock + 1
    /\ UNCHANGED <<JOBS, offJobs>>

\* _run_scan_job, lines 457-459
JobFailed(j) ==
    /\ workers[j].at = "except"
    /\ JOBS' = [JOBS EXCEPT ![j] =
            Update(@, [status |-> "failed", error |-> workers[j].exc, progress |-> 100])]
    /\ workers' = [workers EXCEPT ![j].at = "done"]
    /\ UNCHANGED <<history, clock, offJobs>>

NextJobs ==
    \/ scan_start
    \/ \E j \in DOMAIN workers :
          JobRunning(j) \/ JobScan(j) \/ JobCompleted(j) \/ JobAppend(j) \/ JobFailed(j)

SpecJobs == InitJobs /\ [][NextJobs]_vars

---------------------------------------------------------------------------
(* The OUI table cache: threads that call _vendor_from_mac at the same     *)
(* time (HTTP requests, background jobs, the workers of a subnet="all"     *)
(* scan).  A step is one reading or one writing of the global.             *)

MaxCallers == 2        \* threads that call _vendor_from_mac

\* dict.get(prefix) on a table
TableGet(table, prefix) == IF prefix \in DOMAIN table THEN table[prefix] ELSE None

CallerMacs == {MacLower, MacOther}

offOui == <<scanVars, deep, disc, lookup, jobVars, leasing, taskrun, term>>

InitOui ==
    /\ ScanIdle
    /\ deep = NoDeep
    /\ disc = NoDisc
    /\ lookup = NoLookup
    /\ JobsIdle
    /\ leasing = NoLeasing
    /\ taskrun = NoTaskRun
    /\ term = NoTerm
    /\ OUI_CACHE = NoCache
    /\ oui_file \in BOOLEAN
    /\ callers \in [1..MaxCallers -> {Caller("call", mac, <<>>, <<>>, None) : mac \in CallerMacs}]

\* _vendor_from_mac up to the call of _load_oui_map, and the test
\* `_OUI_CACHE is not None` with its return
LoadCheck(t) ==
    /\ callers[t].at = "call"
    /\ callers' = [callers EXCEPT ![t] =
            IF OUI_CACHE.set THEN [@ EXCEPT !.oui = OUI_CACHE.table, !.at = "get"]
            ELSE [@ EXCEPT !.at = "load"]]
    /\ UNCHANGED <<OUI_CACHE, oui_file, offOui>>

\* the loop over candidates: json.load gives the table, or the file is not
\* there or reading it raises and the table is {}
LoadFile(t) ==
    /\ callers[t].at = "load"
    /\ \E raises \in BOOLEAN :
          callers' = [callers EXCEPT ![t].loaded =
                         IF oui_file /\ ~raises THEN OuiTable ELSE <<>>,
                      ![t].at = "assign"]
    /\ UNCHANGED <<OUI_CACHE, oui_file, offOui>>

\* `_OUI_CACHE = json.load(f)`, `_OUI_CACHE = {}`
LoadAssign(t) ==
    /\ callers[t].at = "assign"
    /\ OUI_CACHE' = Cache(TRUE, callers[t].loaded)
    /\ callers' = [callers EXCEPT ![t].at = "return"]
    /\ UNCHANGED <<oui_file, offOui>>

\* `return _OUI_CACHE or {}`, `return _OUI_CACHE`
LoadReturn(t) ==
    /\ callers[t].at = "return"
    /\ callers' = [callers EXCEPT ![t].oui = OUI_CACHE.table, ![t].at = "get"]
    /\ UNCHANGED <<OUI_CACHE, oui_file, offOui>>

\* `return oui.get(prefix)`
OuiGet(t) ==
    /\ callers[t].at = "get"
    /\ callers' = [callers EXCEPT
            ![t].vendor = TableGet(callers[t].oui, SubSeq(normalize_mac(callers[t].mac), 1, 8)),
            ![t].at = "done"]
    /\ UNCHANGED <<OUI_CACHE, oui_file, offOui>>

NextOui ==
    \E t \in DOMAIN callers :
        LoadCheck(t) \/ LoadFile(t) \/ LoadAssign(t) \/ LoadReturn(t) \/ OuiGet(t)

SpecOui == InitOui /\ [][NextOui]_vars

---------------------------------------------------------------------------
(* discover_dhcp_leases on the two lease files.  A dnsmasq line is the     *)
(* sequence of its blank-separated fields.  A dhcpd file is a sequence of  *)
(* pieces: a closed block `lease <ip> { statements }`, an unclosed one     *)
(* `lease <ip> { statements`, or other text; no statement holds a "}".     *)

MaxLeaseLines == 2     \* lines of dnsmasq.leases, pieces of dhcpd.leases

DnsmasqLines ==
    { <<"1735689600", MacLower, 1, "testhost", "*">>,
      <<"1735689600", MacHyphen, 2, "*">>,
      <<"1735689600", MacOther, 3>>,
      <<"1735689600", MacOther, BadTok, "tv", "*">>,
      <<>> }

\* parse_dnsmasq_leases on the lines _read_file_lines gave
parse_dnsmasq_leases(lines) ==
    LET IsLease(parts) == Len(parts) >= 4 /\ is_ipv4(parts[3])
        kept == SelectSeq(lines, IsLease)
    IN  [i \in DOMAIN kept |->
            Lease(kept[i][3], kept[i][2], IF kept[i][4] # "*" THEN kept[i][4] ELSE "")]

\* one statement of a lease block: "hardware ethernet <mac>;",
\* "client-hostname "<name>";", or another one
Stmt(key, mac, name) == [key |-> key, mac |-> mac, name |-> name]
Piece(kind, ip, stmts) == [kind |-> kind, ip |-> ip, stmts |-> stmts]

DhcpdPieces ==
    { Piece("lease", 4, <<Stmt("starts", NoMac, ""), Stmt("hardware ethernet", MacLower, ""),
                          Stmt("client-hostname", NoMac, "lab-device")>>),
      Piece("lease", 5, <<Stmt("hardware ethernet", MacUpper, "")>>),
      Piece("lease", 6, <<Stmt("client-hostname", NoMac, "tv")>>),
      Piece("lease", BadTok, <<Stmt("hardware ethernet", MacOther, "")>>),
      Piece("open", 7, <<Stmt("hardware ethernet", MacOther, "")>>),
      Piece("text", BadTok, <<>>) }

\* [0-9a-f:]+ with re.I
HexOrColon(m) ==
    /\ m # NoMac /\ Len(m) >= 1
    /\ \A i \in DOMAIN m : Upper(m[i]) \in HexUpper \cup {":"}

\* re.search(...).group(1) if the search matched, else ""
FirstMac(body) ==
    LET hits == SelectSeq(body, LAMBDA st : st.key = "hardware ethernet" /\ HexOrColon(st.mac))
    IN  IF hits # <<>> THEN hits[1].mac ELSE <<>>
FirstName(body) ==
    LET hits == SelectSeq(body, LAMBDA st : st.key = "client-hostname" /\ st.name # "")
    IN  IF hits # <<>> THEN hits[1].name ELSE ""

RECURSIVE Bodies(_)
\* the statements of a sequence of pieces
Bodies(pieces) ==
    IF pieces = <<>> THEN <<>> ELSE Head(pieces).stmts \o Bodies(Tail(pieces))

\* re.findall(r"lease\s+(\d+\.\d+\.\d+\.\d+)\s*\{(.*?)\}", content, re.S):
\* the body of a match ends at the first "}" after its "{"
RECURSIVE FindBlocks(_)
FindBlocks(pieces) ==
    IF pieces = <<>> THEN <<>>
    ELSE LET p == Head(pieces)
             closing == {k \in 1..Len(pieces) : pieces[k].kind = "lease"}
         IN  IF p.kind = "text" \/ closing = {} THEN FindBlocks(Tail(pieces))
             ELSE LET k == CHOOSE c \in closing : \A d \in closing : c <= d
                  IN  <<[ip |-> p.ip, body |-> Bodies(SubSeq(pieces, 1, k))]>>
                          \o FindBlocks(SubSeq(pieces, k + 1, Len(pieces)))

\* parse_dhcpd_leases on the pieces of the file
parse_dhcpd_leases(pieces) ==
    LET blocks == SelectSeq(FindBlocks(pieces), LAMBDA b : is_ipv4(b.ip))
    IN  [i \in DOMAIN blocks |->
            Lease(blocks[i].ip, FirstMac(blocks[i].body), FirstName(blocks[i].body))]

\* _read_file_lines: the lines, or [] when the file cannot be read
read_file_lines(f) == IF f.exists THEN f.lines ELSE <<>>

LeaseFiles(S) == {NoFile} \cup {File(TRUE, l) : l \in SeqUpTo(S, MaxLeaseLines)}

offLeasing == <<scanVars, deep, disc, lookup, jobVars, ouiVars, taskrun, term>>

InitLeasing ==
    /\ ScanIdle
    /\ deep = NoDeep
    /\ disc = NoDisc
    /\ lookup = NoLookup
    /\ JobsIdle
    /\ OuiIdle
    /\ taskrun = NoTaskRun
    /\ term = NoTerm
    /\ \E a \in LeaseFiles(DnsmasqLines), b \in LeaseFiles(DhcpdPieces) :
          leasing = LeasingState("call", a, b, <<>>)

\* leases = parse_dnsmasq_leases() + parse_dhcpd_leases()
ParseLeaseFiles ==
    /\ leasing.at = "call"
    /\ leasing' = [leasing EXCEPT
            !.leases = parse_dnsmasq_leases(read_file_lines(leasing.dnsmasq))
                           \o parse_dhcpd_leases(read_file_lines(leasing.dhcpd)),
            !.at = "parsed"]
    /\ UNCHANGED offLeasing

\* the loop that normalises the MACs, and the return
NormalizeLeases ==
    /\ leasing.at = "parsed"
    /\ leasing' = [leasing EXCEPT !.leases = discover_dhcp_leases(leasing.leases),
                                  !.at = "done"]
    /\ UNCHANGED offLeasing

NextLeasing == ParseLeaseFiles \/ NormalizeLeases

SpecLeasing == InitLeasing /\ [][NextLeasing]_vars

---------------------------------------------------------------------------
(* The task runner (ez_panel/utils/tasks.py).  A parameter value is a      *)
(* sequence of characters; a command template is the sequence of its       *)
(* pieces, literal text and {name} placeholders; a validation regex is     *)
(* ^[class]{atleast,}$ for a character class, or a text that is no regex.  *)

MaxValueLen == 2       \* characters of a parameter value

Chars == {"a", "1", ";", "'", "\n"}
WordChars == {"a", "1"}
Digits == {"1"}
Values == SeqUpTo(Chars, MaxValueLen)

Pattern(valid, class, atleast) == [valid |-> valid, class |-> class, atleast |-> atleast]
\* ^[\w/\-.]+$
DefaultPattern == Pattern(TRUE, WordChars \cup {"/", "-", "."}, 1)
\* ^\d*$
DigitsOrNone == Pattern(TRUE, Digits, 0)
\* a text re.match raises re.error on
BrokenPattern == Pattern(FALSE, {}, 0)

\* re.match(pattern, val) for a pattern ^[class]{atleast,}$: "$" matches at
\* the end and before a newline that ends the text
Matches(pattern, val) ==
    LET Whole(v) == Len(v) >= pattern.atleast /\ \A i \in DOMAIN v : v[i] \in pattern.class
    IN  \/ Whole(val)
        \/ val # <<>> /\ val[Len(val)] = "\n" /\ Whole(SubSeq(val, 1, Len(val) - 1))

\* shlex.quote
SafeChars == WordChars \cup {"@", "%", "+", "=", ":", ",", ".", "/", "-"}
RECURSIVE EscapeQuotes(_)
EscapeQuotes(v) ==
    IF v = <<>> THEN <<>>
    ELSE (IF Head(v) = "'" THEN <<"'", "\"", "'", "\"", "'">> ELSE <<Head(v)>>)
             \o EscapeQuotes(Tail(v))
quote(v) ==
    IF v = <<>> THEN <<"'", "'">>
    ELSE IF \A i \in DOMAIN v : v[i] \in SafeChars THEN v
    ELSE <<"'">> \o EscapeQuotes(v) \o <<"'">>

ParamDef(name, pattern, required) == [name |-> name, pattern |-> pattern, required |-> required]
Lit(text) == [hole |-> "", text |-> <<text>>]
Hole(name) == [hole |-> name, text |-> <<>>]
Task(command, mode, params) == [command |-> command, mode |-> mode, params |-> params]

\* the approved tasks
Tasks ==
    { Task(<<Lit("ls "), Hole("path")>>, "host",
           <<ParamDef("path", DefaultPattern, TRUE)>>),
      Task(<<Lit("tail -n "), Hole("n"), Lit(" "), Hole("path")>>, "docker",
           <<ParamDef("path", DefaultPattern, FALSE), ParamDef("n", DigitsOrNone, FALSE)>>),
      Task(<<Lit("du "), Hole("path"), Lit(" "), Hole("depth")>>, "host",
           <<ParamDef("path", DefaultPattern, TRUE)>>),
      Task(<<Lit("grep "), Hole("n")>>, "host",
           <<ParamDef("n", BrokenPattern, TRUE)>>) }

\* the params of a call: a dictionary name -> value
ParamNames == {"path", "n", "extra"}
SmallValues == {<<>>, <<"1">>, <<"a">>}
ParamDicts ==
    UNION {{d \in [K -> Values] : \A k \in K \ {"path"} : d[k] \in SmallValues} :
              K \in SUBSET ParamNames}

\* the smallest element of a set of positions
First(S) == CHOOSE i \in S : \A j \in S : i <= j

\* _validate_and_render without the regex test
validate_and_render_unchecked(task, params) ==
    LET allowed == task.params
        names == {allowed[i].name : i \in DOMAIN allowed}
        Val(name) == IF name \in DOMAIN params THEN params[name] ELSE <<>>
        missing == {i \in DOMAIN allowed :
                       allowed[i].required /\ allowed[i].name \notin DOMAIN params}
        holes == {i \in DOMAIN task.command : task.command[i].hole # ""}
    IN  IF DOMAIN params \ names # {} THEN Rendered(FALSE, "Unknown parameter", <<>>)
        ELSE IF missing # {} THEN Rendered(FALSE, "Missing required parameter", <<>>)
        ELSE IF \E i \in holes : task.command[i].hole \notin names
        THEN Rendered(FALSE, "Missing placeholder", <<>>)
        ELSE Rendered(TRUE, "",
                 [i \in DOMAIN task.command |->
                     IF i \in holes
                     THEN [task.command[i] EXCEPT !.text = quote(Val(task.command[i].hole))]
                     ELSE task.command[i]])

validate_and_render(task, params) ==
    LET allowed == task.params
        names == {allowed[i].name : i \in DOMAIN allowed}
        \* str(params.get(name, ""))
        Val(name) == IF name \in DOMAIN params THEN params[name] ELSE <<>>
        missing == {i \in DOMAIN allowed :
                       allowed[i].required /\ allowed[i].name \notin DOMAIN params}
        failing == {i \in DOMAIN allowed :
                       \/ ~allowed[i].pattern.valid
                       \/ ~Matches(allowed[i].pattern, Val(allowed[i].name))}
        holes == {i \in DOMAIN task.command : task.command[i].hole # ""}
    IN  IF DOMAIN params \ names # {} THEN Rendered(FALSE, "Unknown parameter", <<>>)
        ELSE IF missing # {} THEN Rendered(FALSE, "Missing required parameter", <<>>)
        ELSE IF failing # {}
        THEN IF allowed[First(failing)].pattern.valid
             THEN Rendered(FALSE, "Parameter failed validation", <<>>)
             ELSE Rendered(FALSE, "Invalid regex", <<>>)
        ELSE IF \E i \in holes : task.command[i].hole \notin names
        THEN Rendered(FALSE, "Missing placeholder", <<>>)
        ELSE Rendered(TRUE, "",
                 [i \in DOMAIN task.command |->
                     IF i \in holes
                     THEN [task.command[i] EXCEPT !.text = quote(Val(task.command[i].hole))]
                     ELSE task.command[i]])

\* how the process ends: its return code, a timeout, another exception
Endings == {[code |-> 0, out |-> "output"], [code |-> 2, out |-> "output"],
            [code |-> 124, out |-> "Task timed out"], [code |-> 1, out |-> "Task error"]}

offTask == <<scanVars, deep, disc, lookup, jobVars, ouiVars, leasing, term>>

InitTask ==
    /\ ScanIdle
    /\ deep = NoDeep
    /\ disc = NoDisc
    /\ lookup = NoLookup
    /\ JobsIdle
    /\ OuiIdle
    /\ leasing = NoLeasing
    /\ term = NoTerm
    /\ \E task \in Tasks, params \in ParamDicts :
          taskrun = TaskRun("call", task, params, NotRendered, <<>>, [code |-> 0, out |-> ""])

\* run_task, line 179
ValidateAndRender ==
    /\ taskrun.at = "call"
    /\ taskrun' = [taskrun EXCEPT
            !.rendered = validate_and_render(taskrun.task, taskrun.params),
            !.at = "validated"]
    /\ UNCHANGED offTask

\* run_task, lines 180-181
RunReject ==
    /\ taskrun.at = "validated"
    /\ ~taskrun.rendered.ok
    /\ taskrun' = [taskrun EXCEPT !.ret = [code |-> 2, out |-> taskrun.rendered.msg],
                                  !.at = "done"]
    /\ UNCHANGED offTask

\* run_task, lines 183-209: bash -lc "cd <cwd> ; <rendered>", on the host or
\* through docker exec
RunExecute ==
    /\ taskrun.at = "validated"
    /\ taskrun.rendered.ok
    /\ \E end \in Endings :
          taskrun' = [taskrun EXCEPT
              !.argv = (IF taskrun.task.mode = "docker" THEN <<Lit("docker exec ")>> ELSE <<>>)
                           \o <<Lit("bash -lc cd ~ ; ")>> \o taskrun.rendered.pieces,
              !.ret = end,
              !.at = "done"]
    /\ UNCHANGED offTask

NextTask == ValidateAndRender \/ RunReject \/ RunExecute

SpecTask == InitTask /\ [][NextTask]_vars

---------------------------------------------------------------------------
(* app.py: POST /run, the terminal endpoint                                *)

\* A command text is the sequence of its pieces: words, blanks and shell
\* operators. The words are names without "." or "..", so os.path.normpath
\* leaves a joined path as it is.
MaxRequests == 3

Blank == " "

\* the backquote character, which a string of this language cannot hold
Backquote == "<backquote>"

\* SAFE_BLOCK_PATTERNS, lines 211-213
SAFE_BLOCK_PATTERNS == {";", "&&", "||", "|", ">", "<", Backquote, "$(", "\\n"}

\* BASE_ALLOWED, lines 181-203, with EZ_PANEL_EXTRA_CMDS left unset
BASE_ALLOWED ==
    {"ls", "pwd", "whoami", "id", "cat", "head", "tail", "echo", "arp", "ip", "ping",
     "traceroute", "nmap", "arp-scan", "netstat", "ss", "route", "hostname", "uname",
     "df", "free"}

\* str.strip() on a text
Strip(t) == StripRight(StripLeft(t))

\* str.split()[0]: the pieces up to the first blank
RECURSIVE FirstPart(_)
FirstPart(t) ==
    IF t = <<>> \/ Head(t) = Blank THEN <<>> ELSE <<Head(t)>> \o FirstPart(Tail(t))

\* _validate_command, lines 215-238
validate_command(raw) ==
    LET stripped == Strip(raw)
        base == FirstPart(stripped)
    IN  IF stripped = <<>> THEN [ok |-> TRUE, base |-> <<>>]
        ELSE IF \E i \in DOMAIN stripped : stripped[i] \in SAFE_BLOCK_PATTERNS
             THEN [ok |-> FALSE, base |-> <<>>]
        ELSE IF base = <<"cd">> THEN [ok |-> TRUE, base |-> base]
        ELSE IF ~(Len(base) = 1 /\ base[1] \in BASE_ALLOWED) THEN [ok |-> FALSE, base |-> base]
        ELSE [ok |-> TRUE, base |-> base]

\* line 267: re.match(r"^\s*cd\s*(?P<path>[^;\n\r]*)$", cmd.strip()), and the
\* stripped group "path" of line 269
cd_match(cmd) ==
    LET stripped == Strip(cmd)
    IN  IF /\ stripped # <<>>
           /\ Head(stripped) = "cd"
           /\ \A i \in 2..Len(stripped) : stripped[i] \notin {";", "\n", "\r"}
        THEN [matched |-> TRUE, path |-> Strip(Tail(stripped))]
        ELSE [matched |-> FALSE, path |-> <<>>]

\* _get_default_cwd, lines 161-165
get_default_cwd(mode) == IF mode = "docker" THEN <<"/root">> ELSE <<"/home/panel">>

\* _get_cwd, lines 167-170
get_cwd(cwdmap, key, mode) ==
    IF cwdmap[key] # <<>> THEN cwdmap[key] ELSE get_default_cwd(mode)

\* path.startswith("/")
Absolute(p) == p # <<>> /\ Head(p) \in {"/tmp", "/root", "/home/panel"}

\* lines 270-277: the directory a cd request stores
new_cwd(cwd, p, mode) ==
    IF p = <<>> \/ p = <<"~">> THEN get_default_cwd(mode)
    ELSE IF p = <<"-">> THEN cwd
    ELSE IF Absolute(p) THEN p
    ELSE cwd \o <<"/">> \o p

\* run_command, line 288
Wrapped(cwd, cmd) == <<"cd", Blank>> \o cwd \o <<Blank, ";", Blank>> \o cmd

\* the commands a client posts: what it asks for, alone or followed by an
\* operator and a second command
Asked ==
    {<<"ls">>, <<Blank, "ls", Blank, "/tmp">>, <<"rm">>, <<"cd">>, <<"cd", Blank, "/tmp">>,
     <<"cd", Blank, "logs">>, <<"cd", Blank, "~">>, <<"cd", Blank, "-">>}

Operators == {";", "&&", "||", "|", ">", "<", Backquote, "$("}

Chained ==
    {a \o <<Blank, op, Blank, "rm">> :
        a \in {<<"ls">>, <<"cd", Blank, "/tmp">>, <<"cd", Blank, "logs">>}, op \in Operators}

Commands == {<<>>, <<Blank>>} \cup Asked \cup Chained

\* how the process ends: its output, a timeout, another exception
Outputs == {"output", "Command timed out", "Execution error"}

offTerm == <<scanVars, deep, disc, lookup, jobVars, ouiVars, leasing, taskrun>>

InitTerm ==
    /\ ScanIdle
    /\ deep = NoDeep
    /\ disc = NoDisc
    /\ lookup = NoLookup
    /\ JobsIdle
    /\ OuiIdle
    /\ leasing = NoLeasing
    /\ taskrun = NoTaskRun
    /\ \E mode \in {"off", "docker", "host"} : term = Term(mode, NoCwds, 0, NoBash, NoReply)

Serve(cwdmap, bash, status, body) ==
    term' = Term(term.mode, cwdmap, term.served + 1, bash, [status |-> status, body |-> body])

\* run_command, lines 248-251: neither execution mode is enabled
RunForbidden ==
    /\ term.served < MaxRequests
    /\ term.mode = "off"
    /\ Serve(term.CWD_MAP, NoBash, 403, "Command execution disabled")
    /\ UNCHANGED offTerm

\* run_command, lines 252-255: no command
RunNothing ==
    /\ term.served < MaxRequests
    /\ term.mode # "off"
    /\ \E cmd \in Commands :
          /\ Strip(cmd) = <<>>
          /\ Serve(term.CWD_MAP, NoBash, 200, "")
    /\ UNCHANGED offTerm

\* run_command, lines 257-279: cd changes the stored directory of the session
RunCd ==
    /\ term.served < MaxRequests
    /\ term.mode # "off"
    /\ \E key \in Sessions, cmd \in Commands :
          LET cwd == get_cwd(term.CWD_MAP, key, term.mode)
              m == cd_match(cmd)
          IN  /\ Strip(cmd) # <<>>
              /\ m.matched
              /\ Serve([term.CWD_MAP EXCEPT ![key] = new_cwd(cwd, m.path, term.mode)],
                       NoBash, 200, "")
    /\ UNCHANGED offTerm

\* run_command, lines 281-283: the command is refused
RunRefused ==
    /\ term.served < MaxRequests
    /\ term.mode # "off"
    /\ \E cmd \in Commands :
          /\ Strip(cmd) # <<>>
          /\ ~cd_match(cmd).matched
          /\ ~validate_command(cmd).ok
          /\ Serve(term.CWD_MAP, NoBash, 400, "Rejected")
    /\ UNCHANGED offTerm

\* run_command, lines 285-311: bash -lc "cd <cwd> ; <cmd>", on the host or
\* through docker exec
RunExecuted ==
    /\ term.served < MaxRequests
    /\ term.mode # "off"
    /\ \E key \in Sessions, cmd \in Commands, out \in Outputs :
          LET cwd == get_cwd(term.CWD_MAP, key, term.mode)
          IN  /\ Strip(cmd) # <<>>
              /\ ~cd_match(cmd).matched
              /\ validate_command(cmd).ok
              /\ Serve(term.CWD_MAP,
                       [ran |-> TRUE, mode |-> term.mode, cwd |-> cwd, cmd |-> cmd,
                        wrapped |-> Wrapped(cwd, cmd)],
                       200, out)
    /\ UNCHANGED offTerm

NextTerm == RunForbidden \/ RunNothing \/ RunCd \/ RunRefused \/ RunExecuted

SpecTerm == InitTerm /\ [][NextTerm]_vars

---------------------------------------------------------------------------
(* Properties *)

Single == args.subnet.kind # "all" /\ pc \notin {"idle", "pair"} /\ frame # NoFrame
Tried == frame.backends_tried
Ips(list) == {list[i].ip : i \in DOMAIN list}
Successor(b) == IF b = "arp-scan" THEN "nmap" ELSE "ping"

\* every list a scan_network call has returned: the call's own and, for
\* subnet="all", those of the per-subnet calls
Returned ==
    {r.list : r \in {x \in {ret} \cup {pool[i].result : i \in DOMAIN pool} : x.kind = "list"}}

\* C1: a backend that runs after another one is its successor in the order
\* arp-scan -> nmap -> ping: nmap follows a failed arp-scan, the ping sweep a
\* failed nmap.
C1_NextInPriorityOrder ==
    Single => \A i \in 1..(Len(Tried) - 1) : Tried[i + 1] = Successor(Tried[i])

\* C2: scan_network never raises to its caller.
C2_NeverRaises == ret.kind # "raised"

\* C3: the base device list (the list when the backends are through, before
\* enrichment) is empty only if every backend from the first one chosen down
\* to the ping sweep was tried.
C3_EmptyBaseAfterWholeChain ==
    (Single /\ pc = "enrich" /\ args.method # "bogus" /\ frame.devices = <<>>)
        => LET first == BlockIndex(Tried[1])
           IN  Tried = SubSeq(BlockOrder, first, Len(BlockOrder))

\* C4: the first backend run is arp-scan, nmap or ping by executable lookup
\* alone when method is "auto" (arp-scan if on the PATH, else nmap if on the
\* PATH, else ping), and the named backend when method names one; it is fixed
\* before any tool has run.
C4_FirstBackend ==
    (Single /\ pc # "choose" /\ args.method # "bogus")
        => LET expected ==
                   IF args.method # "auto" THEN args.method
                   ELSE IF "arp-scan" \in path THEN "arp-scan"
                   ELSE IF "nmap" \in path THEN "nmap"
                   ELSE "ping"
           IN  IF Tried = <<>> THEN pc = expected ELSE Tried[1] = expected

C4_Witness ==
    /\ Single /\ pc = "done" /\ args.method = "auto"
    /\ path = {"nmap"}
    /\ Tried = <<"nmap">>
    /\ ret.list # <<>>

\* C5: a ping scan of a valid CIDR with at least 2 hosts and
\* include_offline=True, deep discovery off, returns exactly one record per
\* host address (network and broadcast address excluded), "online" if the
\* host's probe succeeded and "offline" otherwise, in any completion order.
C5_OneRecordPerHost ==
    (Single /\ pc = "done" /\ args.method = "ping" /\ args.include_offline
        /\ ~args.deep_discovery /\ ValidCidr(frame.cidr) /\ Len(hosts(frame.cidr)) >= 2)
        => LET hs == hosts(frame.cidr)
               size == 2 ^ (AddrBits - frame.cidr.prefix)
               net == frame.cidr.addr - (frame.cidr.addr % size)
           IN  /\ Len(ret.list) = Len(hs)
               /\ Ips(ret.list) = Range(hs)
               /\ \A i \in DOMAIN ret.list :
                     ret.list[i].status =
                         IF ret.list[i].ip \in probe THEN "online" ELSE "offline"
               /\ size >= 4 => net \notin Ips(ret.list) /\ (net + size - 1) \notin Ips(ret.list)

C5_Witness ==
    /\ Single /\ pc = "done" /\ args.method = "ping" /\ args.include_offline
    /\ ~args.deep_discovery /\ ValidCidr(frame.cidr)
    /\ Len(hosts(frame.cidr)) = 2
    /\ Cardinality(probe) = 1
    /\ ret.list[1].ip = hosts(frame.cidr)[2]
    /\ ret.list[1].status = "offline"

\* C6: for a valid CIDR and a fixed set of answering hosts, the ping scan
\* with include_offline=False returns only "online" records, and its IPs are
\* exactly the IPs that are "online" in the scan with include_offline=True.
C6_OnlineSubset ==
    (pair[1].kind = "list" /\ pair[2].kind = "list")
        => /\ \A i \in DOMAIN pair[2].list : pair[2].list[i].status = "online"
           /\ Ips(pair[2].list) \subseteq Ips(pair[1].list)
           /\ Ips(pair[2].list) =
                 {pair[1].list[i].ip : i \in {j \in DOMAIN pair[1].list :
                                                 pair[1].list[j].status = "online"}}

C6_Witness ==
    /\ pair[1].kind = "list" /\ pair[2].kind = "list"
    /\ Len(pair[1].list) = 2
    /\ Len(pair[2].list) = 1
    /\ pair[1].list[1].ip # pair[2].list[1].ip

\* C7: every record of every returned list has status "online" or "offline".
C7_StatusLabels ==
    \A list \in Returned : \A i \in DOMAIN list : list[i].status \in {"online", "offline"}

C7_Witness ==
    /\ pc = "done" /\ args.subnet.kind = "all" /\ args.deep_discovery
    /\ \E i, j \in DOMAIN ret.list :
          ret.list[i].status = "offline" /\ ret.list[j].type = "ssdp"

\* C8: no two records of the list a call returns have the same ip.
C8_UniqueIps ==
    ret.kind = "list" => \A i, j \in DOMAIN ret.list : i # j => ret.list[i].ip # ret.list[j].ip

\* the record subnet="all" keeps for ip: the first one with that ip in the
\* first merged per-subnet list that has it
ListsMerged == [k \in DOMAIN merged |-> ResultOrEmpty(pool[merged[k]].result)]
FirstWith(ip) ==
    LET k == CHOOSE k \in DOMAIN ListsMerged :
                 /\ ip \in Ips(ListsMerged[k])
                 /\ \A h \in 1..(k - 1) : ip \notin Ips(ListsMerged[h])
        l == ListsMerged[k]
        i == CHOOSE i \in DOMAIN l : l[i].ip = ip /\ \A j \in 1..(i - 1) : l[j].ip # ip
    IN  l[i]

\* C9: subnet="all" runs at most min(8, number of CIDRs) scans at a time and
\* returns a list: each ip of a per-subnet list that returned is in it once,
\* with the record of the first merged list that has the ip; a per-subnet
\* scan that raised contributes nothing and stops nothing.
C9_FirstMergedWins ==
    /\ \A n \in 1..(2 * PoolCap) : max_workers(n) = Min(PoolCap, n)
    /\ pc = "all" => Running <= Min(PoolCap, Len(subnets))
    /\ (pc = "done" /\ args.subnet.kind = "all")
          => /\ ret.kind = "list"
             /\ Len(merged) = Len(subnets)
             /\ Ips(ret.list) = UNION {Ips(ListsMerged[k]) : k \in DOMAIN ListsMerged}
             /\ \A i, j \in DOMAIN ret.list : i # j => ret.list[i].ip # ret.list[j].ip
             /\ \A i \in DOMAIN ret.list : ret.list[i] = FirstWith(ret.list[i].ip)

C9_Witness ==
    /\ pc = "done" /\ args.subnet.kind = "all"
    /\ merged = <<2, 1>>
    /\ pool[1].result.kind = "list" /\ pool[2].result.kind = "list"
    /\ \E i \in DOMAIN pool[1].result.list, j \in DOMAIN pool[2].result.list :
          /\ pool[1].result.list[i].ip = pool[2].result.list[j].ip
          /\ pool[1].result.list[i] # pool[2].result.list[j]

\* C10: in every record of the list a call returns mac is None or six
\* uppercase hex octets separated by colons.
C10_CanonicalMac ==
    ret.kind = "list" => \A i \in DOMAIN ret.list :
        ret.list[i].mac = NoMac \/ MacRegex(ret.list[i].mac)

\* a record after a step still has every concrete value it had before it
Preserved(before, after) ==
    /\ after.ip = before.ip
    /\ after.status = before.status
    /\ ~Falsy(before.name) => after.name = before.name
    /\ before.type # "unknown" => after.type = before.type
    /\ ~FalsyMac(before.mac) => after.mac = before.mac
    /\ ~Falsy(before.vendor) => after.vendor = before.vendor

\* building the index keeps, for each ip, the last record with that ip as it
\* is; every other step keeps each record in place
C11_Step ==
    deep.at # "off" =>
        IF deep.at = "index"
        THEN /\ Ips(deep'.devices) = Ips(deep.devices)
             /\ \A k \in DOMAIN deep'.devices :
                   deep'.devices[k] =
                       deep.devices[LastIndex(deep.devices, deep'.devices[k].ip)]
        ELSE \A k \in DOMAIN deep.devices :
                /\ k \in DOMAIN deep'.devices
                /\ Preserved(deep.devices[k], deep'.devices[k])

C11_EndToEnd ==
    deep.at = "done" =>
        /\ Ips(deep.base) \subseteq Ips(deep.devices)
        /\ \A k \in DOMAIN deep.devices :
              deep.devices[k].ip \in Ips(deep.base) =>
                  Preserved(deep.base[LastIndex(deep.base, deep.devices[k].ip)],
                            deep.devices[k])

\* C11: enrichment never overwrites a concrete value.  No step from the ARP
\* neighbor merge to the return (neighbor merge, OUI fill, each turn of the
\* SSDP/mDNS loop, each turn of the lease loop, the status coercion) changes
\* the ip or the status of a record, a non-empty name, a type other than
\* "unknown", a mac that is set or a vendor that is set; so the record
\* returned for an ip of the base list has the base record's concrete values.
C11_NoOverwrite == []C11_EndToEnd /\ [][C11_Step]_vars

C11_Witness ==
    /\ deep.at = "done"
    /\ 1 \in DOMAIN deep.neighbors /\ deep.neighbors[1] # MacOther
    /\ Len(Leases) = 1 /\ Leases[1].ip = 1 /\ Leases[1].mac # MacOther
    /\ \E i \in DOMAIN Extras : Extras[i].ip = 1 /\ Extras[i].name = "other"
    /\ \E k \in DOMAIN deep.devices :
          /\ deep.devices[k].ip = 1
          /\ deep.devices[k].mac = MacOther
          /\ deep.devices[k].name = "host1"

\* a merge turn whose record has the ip of a record of the index fills that
\* record's unset fields from it
C12_Step ==
    LET turn == deep.i
        b == deep.devices
        a == deep'.devices
    IN  /\ (deep.at = "extras" /\ turn <= Len(Extras)
                /\ IndexOf(b, Extras[turn].ip) # 0)
            => LET e == Extras[turn]
                   k == IndexOf(b, e.ip)
               IN  /\ a[k].name = Or(b[k].name, e.name)
                   /\ a[k].type = IF b[k].type = "unknown" THEN Or(e.type, "unknown")
                                  ELSE b[k].type
                   /\ a[k].mac = OrMac(b[k].mac, e.mac)
        /\ (deep.at = "lease-loop" /\ turn <= Len(Leases)
                /\ IndexOf(b, Leases[turn].ip) # 0)
            => LET e == Leases[turn]
                   k == IndexOf(b, e.ip)
               IN  /\ a[k].name = Or(b[k].name, e.name)
                   /\ a[k].type = b[k].type
                   /\ a[k].mac = OrMac(b[k].mac, e.mac)

StatusOf(list, ip) ==
    IF ip \in Ips(list) THEN list[IndexOf(list, ip)].status ELSE None

\* C13: in a deep scan, an ip that is not in the base list is in the result
\* with status "online" if SSDP or mDNS reported it, whatever include_offline
\* is; if only a lease mentions it, it is in the result with status "offline"
\* when include_offline is true and is not in the result when it is false.
C13_NewIpBySource ==
    deep.at = "done" =>
        /\ \A ip \in Ips(Extras) \ Ips(deep.base) :
              StatusOf(deep.devices, ip) = "online"
        /\ \A ip \in (Ips(Leases) \ Ips(Extras)) \ Ips(deep.base) :
              StatusOf(deep.devices, ip) =
                  IF deep.include_offline THEN "offline" ELSE None

C13_Witness ==
    /\ deep.at = "done"
    /\ deep.include_offline
    /\ \E ip \in Ips(Extras) \ Ips(deep.base) : StatusOf(deep.devices, ip) = "online"
    /\ \E ip \in (Ips(Leases) \ Ips(Extras)) \ Ips(deep.base) :
          StatusOf(deep.devices, ip) = "offline"

\* C14: a host that a source positively observed in the scan is returned
\* with status "online": every ip that SSDP or mDNS reported is "online" in
\* the result, also when the ping sweep had listed it as "offline" (stated
\* for the records of the shipped sources, which carry no mac).
C14_ObservedIsOnline ==
    deep.at = "done" =>
        \A i \in DOMAIN Extras :
            Extras[i].mac = NoMac => StatusOf(deep.devices, Extras[i].ip) = "online"

\* C15: with include_offline=False every record of every returned list has
\* status "online": for each method, with deep discovery on or off, for one
\* subnet and for subnet="all" (the per-subnet lists and the merged list).
C15_OfflineOnlyOnRequest ==
    ~args.include_offline =>
        \A list \in Returned : \A i \in DOMAIN list : list[i].status = "online"

\* a deep ping scan without include_offline in which one host did not answer
\* and which still returns records
C15_Witness ==
    /\ Single /\ pc = "done" /\ ~args.include_offline
    /\ args.method = "ping" /\ args.deep_discovery
    /\ ValidCidr(frame.cidr) /\ Cardinality(probe) = 1 /\ Len(hosts(frame.cidr)) = 2
    /\ Len(ret.list) >= 2

\* the outcome of a source that returned nothing, for a source that raised
Emptied(o) == IF o.raised THEN NoOutcome ELSE o

\* what the scan returns when each source that raised returns [] instead
ResultWithEmptied ==
    FinalBlock(DeepBlock(EnrichBlock(AsFrame(deep.base), deep.neighbors),
                         Emptied(deep.ssdp), Emptied(deep.mdns), Emptied(deep.leases),
                         deep.include_offline)).devices

\* C16: a deep-discovery source that raises contributes the empty list and
\* nothing else: the scan returns what it returns when that source returns
\* [], which has every ip of the base list, every ip a surviving SSDP or mDNS
\* source reported and, with include_offline, every ip of surviving leases.
C16_FailedSourceIsEmpty ==
    deep.at = "done" =>
        /\ deep.devices = ResultWithEmptied
        /\ Ips(deep.base) \subseteq Ips(deep.devices)
        /\ Ips(Emptied(deep.ssdp).list) \cup Ips(Emptied(deep.mdns).list)
               \subseteq Ips(deep.devices)
        /\ deep.include_offline =>
               Ips(Emptied(deep.leases).list) \subseteq Ips(deep.devices)

C16_Witness ==
    /\ deep.at = "done"
    /\ deep.ssdp.raised /\ deep.ssdp.list # <<>>
    /\ ~deep.mdns.raised /\ deep.mdns.list # <<>>
    /\ ~deep.leases.raised /\ deep.leases.list # <<>>
    /\ Ips(deep.ssdp.list) \cap Ips(deep.devices) = {}
    /\ Ips(deep.mdns.list) \subseteq Ips(deep.devices) \ Ips(deep.base)

\* C17: when no subnet can be determined the call returns the empty list at
\* once, without a backend, an enrichment source or an exception: for
\* subnet=None when discover_local_cidr gives None, and for subnet="all" when
\* discover_all_local_cidrs gives no CIDR (no scan is submitted).
C17_NoSubnetIsEmpty ==
    /\ (pc \notin {"idle", "pair", "off"} /\ args.subnet = NoSubnet
            /\ frame.cidr = NoSubnet)
        => /\ pc = "done"
           /\ ret = Ret("list", <<>>)
           /\ Tried = <<>>
    /\ (pc \notin {"idle", "pair", "off"} /\ args.subnet = AllSubnets
            /\ subnets = <<>>)
        => /\ pc \in {"all", "done"}
           /\ pool = <<>> /\ merged = <<>>
           /\ pc = "done" => ret = Ret("list", <<>>)

C17_Witness ==
    /\ pc = "done" /\ args.subnet = AllSubnets /\ subnets = <<>>
    /\ args.deep_discovery /\ args.method = "ping"
    /\ ret = Ret("list", <<>>)

\* the network of an addr_info entry, and the first entry that lists a network
NetOf(e) == ip_network(e.local, e.prefixlen).net
FirstListed(net) ==
    CHOOSE i \in DOMAIN disc.data :
        /\ disc.data[i].local # NoAddr /\ NetOf(disc.data[i]) = net
        /\ \A j \in 1..(i - 1) :
              disc.data[j].local = NoAddr \/ NetOf(disc.data[j]) # net

\* a network inside 169.254.0.0/16, inside 127.0.0.0/8
InLinkLocal(net) == net.prefixlen >= 16 /\ net.octets[1] = 169 /\ net.octets[2] = 254
InLoopback(net) == net.prefixlen >= 8 /\ net.octets[1] = 127

\* C18: the list discover_all_local_cidrs returns has no CIDR inside
\* 169.254.0.0/16, none with a prefix length above max_prefix, no loopback
\* network and no CIDR twice, whether the interface enumeration or the
\* fallback to the primary CIDR produced it.
C18_FilteredList ==
    disc.at = "done" =>
        /\ \A k \in DOMAIN disc.out :
              /\ ~InLinkLocal(disc.out[k])
              /\ disc.out[k].prefixlen <= max_prefix
              /\ ~InLoopback(disc.out[k])
        /\ \A j, k \in DOMAIN disc.out : j # k => disc.out[j] # disc.out[k]
        /\ ~disc.fallback =>
              \A j, k \in DOMAIN disc.out :
                 j < k => FirstListed(disc.out[j]) < FirstListed(disc.out[k])

\* a network inside 10.0.0.0/8, 172.16.0.0/12 or 192.168.0.0/16
InPrivate(net) ==
    \/ net.prefixlen >= 8 /\ net.octets[1] = 10
    \/ net.prefixlen >= 12 /\ net.octets[1] = 172 /\ net.octets[2] \in 16..31
    \/ net.prefixlen >= 16 /\ net.octets[1] = 192 /\ net.octets[2] = 168

\* the entry passes every filter of the loop but the size rule
PassesOtherFilters(e) ==
    /\ e.ifname # <<>> /\ ~StartsWithLo(e.ifname)
    /\ e.family = "inet"
    /\ e.local # NoAddr /\ e.prefixlen \in 0..max_prefix
    /\ e.local[1] # 127
    /\ ~(NetOf(e).octets[1] = 169 /\ NetOf(e).octets[2] = 254)

\* C19: the size rule drops a network if and only if its prefix length is
\* below 8 and it is not inside RFC1918 private space: in the list the
\* enumeration returns, every CIDR with a prefix length below 8 is inside
\* private space, and every listed network with a prefix length of 8 or more
\* that passes the other filters is returned.
C19_SizeRule ==
    (disc.at = "done" /\ ~disc.fallback) =>
        /\ \A k \in DOMAIN disc.out :
              disc.out[k].prefixlen < 8 => InPrivate(disc.out[k])
        /\ \A i \in DOMAIN disc.data :
              (PassesOtherFilters(disc.data[i]) /\ disc.data[i].prefixlen >= 8)
                  => NetOf(disc.data[i]) \in Range(disc.out)

\* the text without the blanks around it
Trimmed(m) ==
    LET inked == {i \in DOMAIN m : m[i] # " "}
    IN  IF inked = {} THEN <<>>
        ELSE SubSeq(m, CHOOSE i \in inked : \A j \in inked : i <= j,
                       CHOOSE i \in inked : \A j \in inked : i >= j)

HexAnyCase == HexUpper \cup {"a", "b", "c", "d", "e", "f"}

\* six octets of two hex digits, each two separated by a colon or a hyphen
SixOctets(t) ==
    /\ Len(t) = 17
    /\ \A i \in 1..17 : IF i % 3 = 0 THEN t[i] \in {":", "-"} ELSE t[i] \in HexAnyCase

\* the first three octets in upper case, colon-separated
OuiKey(t) ==
    <<Upper(t[1]), Upper(t[2]), ":", Upper(t[4]), Upper(t[5]), ":",
      Upper(t[7]), Upper(t[8])>>

\* C20: _vendor_from_mac(m) is the OUI table's vendor when m, trimmed, is six
\* hex octets separated by colons or hyphens (in either case) whose first
\* three octets, in upper case with colons, are a key of the table; it is
\* None when the key is not in the table, when m is None or empty and when m
\* is malformed.
C20_VendorLookup ==
    lookup.at = "done" =>
        lookup.vendor =
            IF lookup.mac = NoMac \/ lookup.mac = <<>> THEN None
            ELSE IF SixOctets(Trimmed(lookup.mac))
                    /\ OuiKey(Trimmed(lookup.mac)) \in DOMAIN OuiTable
                 THEN OuiTable[OuiKey(Trimmed(lookup.mac))]
                 ELSE None

C20_Witness ==
    /\ lookup.at = "done"
    /\ lookup.vendor = "Acme"
    /\ Len(lookup.mac) = 17 + 2 * MaxPad
    /\ \E i \in DOMAIN lookup.mac : lookup.mac[i] = "-"
    /\ \E i \in DOMAIN lookup.mac : lookup.mac[i] = "b"

\* C21: normalising a MAC text that is already normalised changes nothing:
\* _normalize_mac(_normalize_mac(m)) = _normalize_mac(m) for every text m,
\* whatever its separator, case and surrounding blanks.
C21_NormalizeIdempotent ==
    lookup.at = "twice" => lookup.twice = lookup.once

\* a padded lower-case hyphen-separated text has been normalised twice
C21_Witness ==
    /\ lookup.at = "twice"
    /\ lookup.mac = <<" ">> \o JoinOctets(Cased(OtherOctets, TRUE), "-") \o <<" ">>
    /\ lookup.once = JoinOctets(OtherOctets, ":")

Statuses == {"queued", "running", "completed", "failed"}
Finished(job) == job.status \in {"completed", "failed"}

\* the status changes a job may make
StatusMoves ==
    {<<"queued", "running">>, <<"running", "completed">>, <<"running", "failed">>}

C22_State ==
    \A j \in DOMAIN JOBS :
        /\ JOBS[j].status \in Statuses
        /\ Finished(JOBS[j]) => ("result" \in JOBS[j].keys) # ("error" \in JOBS[j].keys)

C22_Step ==
    /\ \A j \in DOMAIN JOBS' \ DOMAIN JOBS :
          JOBS'[j].status = "queued" /\ JOBS'[j].progress = 0
    /\ \A j \in DOMAIN JOBS :
          /\ JOBS'[j].progress >= JOBS[j].progress
          /\ \/ JOBS'[j].status = JOBS[j].status
             \/ <<JOBS[j].status, JOBS'[j].status>> \in StatusMoves

\* C22: a job starts as "queued" with progress 0; its status is one of the
\* four values and only moves queued -> running -> completed or
\* queued -> running -> failed, so that completed and failed are final; its
\* progress never decreases; a finished job has a result or an error, not both.
C22_JobLifecycle == []C22_State /\ [][C22_Step]_vars

\* the parts of C22 that the code keeps
C22_Kept ==
    /\ \A j \in DOMAIN JOBS :
          /\ JOBS[j].status \in Statuses
          /\ "error" \in JOBS[j].keys => JOBS[j].status = "failed"
          /\ JOBS[j].status = "completed" => "result" \in JOBS[j].keys /\ "error" \notin JOBS[j].keys

\* the history lines that are the record of job j
RecordsOf(j) == {i \in DOMAIN history : history[i] = workers[j].rec}
ReachedCompleted(j) == "result" \in JOBS[j].keys
Ended(j) == workers[j].at = "done"

C23_State ==
    \A j \in DOMAIN JOBS :
        /\ Ended(j) /\ ReachedCompleted(j) =>
              /\ Cardinality(RecordsOf(j)) = 1
              /\ \A i \in RecordsOf(j) :
                    /\ history[i].params = workers[j].params
                    /\ history[i].result = JOBS[j].result
        /\ ~ReachedCompleted(j) => RecordsOf(j) = {}

C23_Step ==
    /\ Len(history') >= Len(history)
    /\ \A i \in DOMAIN history : history'[i] = history[i]

\* C23: once its thread has ended, a job that reached "completed" has
\* exactly one record in the history log, with its params and its result; a
\* job whose scan failed has none; and whatever the jobs' threads do, and in
\* whatever order, a record that is in the log stays as it was written.
C23_HistoryLog == []C23_State /\ [][C23_Step]_vars

\* the parts of C23 that the code keeps
C23_Kept ==
    /\ \A j \in DOMAIN JOBS :
          /\ Cardinality(RecordsOf(j)) <= 1
          /\ ~ReachedCompleted(j) => RecordsOf(j) = {}
          /\ Ended(j) /\ JOBS[j].status = "completed" => Cardinality(RecordsOf(j)) = 1
    /\ \A i \in DOMAIN history : \E j \in DOMAIN JOBS : RecordsOf(j) = {i}

\* a thread writes the global in this step
Assigns(t) == callers[t].at = "assign" /\ callers'[t].at = "return"

C24_State ==
    \A t, u \in DOMAIN callers :
        callers[t].at \in {"get", "done"} /\ callers[u].at \in {"get", "done"} =>
            callers[t].oui = callers[u].oui

C24_Step == \A t \in DOMAIN callers : Assigns(t) => ~OUI_CACHE.set

\* C24: whatever the interleaving of the threads that call
\* _vendor_from_mac, the cache is assigned at most once (no thread assigns
\* a cache that is already set), and every lookup uses the same table.
C24_LoadedOnce == []C24_State /\ [][C24_Step]_vars

\* the names the tools and the sources have for ip
ToolNames(ip) ==
    {l.name : l \in {x \in NmapLines : x.kind = "report" /\ x.paren /\ x.ip = ip}}
SourceNames(ip) == {d.name : d \in {x \in SsdpDevs \cup MdnsDevs : x.ip = ip}}
LeaseNames(ip) == {l.name : l \in {x \in RawLeases : x.ip = ip}}
GivenNames(ip) == (ToolNames(ip) \cup SourceNames(ip) \cup LeaseNames(ip)) \ {None, ""}

\* C25: every record of every returned list has a name that is not empty:
\* a name a tool, an SSDP/mDNS answer or a lease gave for the record's ip,
\* the reverse-DNS name of the ip, or the ip itself; so it is the ip when
\* nothing names the host and reverse DNS fails.
C25_NeverUnnamed ==
    \A list \in Returned : \A i \in DOMAIN list :
        /\ ~Falsy(list[i].name)
        /\ list[i].name \in GivenNames(list[i].ip)
                              \cup {reverse_dns(list[i].ip), IpStr(list[i].ip)}

\* a deep call has returned a host that nothing names and reverse DNS does
\* not resolve under its ip, next to a lease-only host whose lease has no
\* hostname
C25_Witness ==
    /\ Single /\ pc = "done" /\ args.deep_discovery /\ args.include_offline
    /\ \E i, j \in DOMAIN ret.list :
          /\ ret.list[i].ip \notin Resolvable /\ GivenNames(ret.list[i].ip) = {}
          /\ ret.list[i].name = IpStr(ret.list[i].ip) /\ ret.list[i].status = "online"
          /\ ret.list[j].ip = 2 /\ ret.list[j].status = "offline"
          /\ ret.list[j].name = IpStr(2) /\ ret.list[j].mac = MacUpper

\* the record of a well-formed entry
WellFormedLine(parts) == Len(parts) >= 4 /\ parts[3] \in 0..MaxAddr
WellFormedPiece(p) == p.kind = "lease" /\ p.ip \in 0..MaxAddr
NormalOrEmpty(m) == IF m = <<>> THEN <<>> ELSE normalize_mac(m)
RecordOfLine(parts) ==
    Lease(parts[3], NormalOrEmpty(parts[2]), IF parts[4] = "*" THEN "" ELSE parts[4])
RecordOfPiece(p) ==
    Lease(p.ip, NormalOrEmpty(FirstMac(p.stmts)), FirstName(p.stmts))

\* one record per well-formed entry, in the order of the files
ExpectedLeases ==
    LET lines == SelectSeq(leasing.dnsmasq.lines, WellFormedLine)
        pieces == SelectSeq(leasing.dhcpd.lines, WellFormedPiece)
    IN  [i \in DOMAIN lines |-> RecordOfLine(lines[i])]
            \o [i \in DOMAIN pieces |-> RecordOfPiece(pieces[i])]

\* C26: lease discovery returns one record per well-formed entry of the two
\* files, with the entry's ip, its MAC in upper case with colons and its
\* hostname; a file that is not there gives nothing, and an entry that is
\* not well formed is left out without a loss of the entries around it.
C26_OneRecordPerLease ==
    leasing.at = "done" => leasing.leases = ExpectedLeases

\* C26 for dhcpd files in which every lease block is closed
C26_Kept ==
    leasing.at = "done" /\ (\A i \in DOMAIN leasing.dhcpd.lines :
                                leasing.dhcpd.lines[i].kind # "open") =>
        leasing.leases = ExpectedLeases

\* the vendors a tool prints on the line of the MAC address mac
ToolVendors(mac) ==
    {l.parts[3] : l \in {x \in ArpLines : x.kind = "fields" /\ Len(x.parts) >= 3
                                              /\ x.parts[2] = mac}}
        \cup {l.vendor : l \in {x \in NmapLines : x.kind = "mac" /\ x.mac = mac}}

\* C27: in every record of every returned list the vendor is None when the
\* record has no mac, and a vendor that is not None is the one the tool
\* printed with the record's mac or the OUI-table entry of the record's mac.
C27_VendorOfOwnMac ==
    \A list \in Returned : \A i \in DOMAIN list :
        /\ FalsyMac(list[i].mac) => list[i].vendor = None
        /\ list[i].vendor # None =>
              \/ list[i].vendor \in ToolVendors(list[i].mac)
              \/ list[i].vendor = vendor_from_mac(list[i].mac)

\* the word bash reads from the start of a text: what is between single or
\* double quotes is taken as it is, and outside quotes a character that is
\* not a plain one ends the word; [word, rest]
RECURSIVE BashWord(_, _, _)
BashWord(text, mode, word) ==
    IF text = <<>> THEN [word |-> word, rest |-> <<>>, open |-> mode # "plain"]
    ELSE LET c == Head(text)
         IN  CASE mode = "plain" /\ c = "'" -> BashWord(Tail(text), "single", word)
               [] mode = "plain" /\ c = "\"" -> BashWord(Tail(text), "double", word)
               [] mode = "plain" /\ c \notin SafeChars ->
                      [word |-> word, rest |-> text, open |-> FALSE]
               [] mode = "single" /\ c = "'" -> BashWord(Tail(text), "plain", word)
               [] mode = "double" /\ c = "\"" -> BashWord(Tail(text), "plain", word)
               [] OTHER -> BashWord(Tail(text), mode, Append(word, c))

\* the text is one shell word that stands for the value v
OneWordFor(text, v) ==
    text # <<>> /\ BashWord(text, "plain", <<>>) = [word |-> v, rest |-> <<>>, open |-> FALSE]

Declared(task, name) == \E i \in DOMAIN task.params : task.params[i].name = name
DefOf(task, name) == task.params[First({i \in DOMAIN task.params : task.params[i].name = name})]
ValueOf(params, name) == IF name \in DOMAIN params THEN params[name] ELSE <<>>
Accepts(pattern, v) == pattern.valid /\ Matches(pattern, v)

UnknownSupplied(task, params) == \E k \in DOMAIN params : ~Declared(task, k)
RequiredMissing(task, params) ==
    \E i \in DOMAIN task.params :
        task.params[i].required /\ task.params[i].name \notin DOMAIN params
SuppliedMismatch(task, params) ==
    \E k \in DOMAIN params : Declared(task, k) /\ ~Accepts(DefOf(task, k).pattern, params[k])
HoleWithoutParam(task) ==
    \E i \in DOMAIN task.command :
        task.command[i].hole # "" /\ ~Declared(task, task.command[i].hole)

Executed == taskrun.argv # <<>>

\* C28: run_task starts a process only after the validation: with a
\* parameter the task does not declare, a required parameter that is
\* missing, a value that its regex does not match or a placeholder without
\* a parameter, it returns (2, message) and runs nothing; and in a command
\* it runs, what stands for a placeholder is one shell word whose value is
\* the parameter's value, which the parameter's regex matches.
C28_ValidatedBeforeRun ==
    taskrun.at = "done" =>
        /\ (\/ UnknownSupplied(taskrun.task, taskrun.params)
            \/ RequiredMissing(taskrun.task, taskrun.params)
            \/ SuppliedMismatch(taskrun.task, taskrun.params)
            \/ HoleWithoutParam(taskrun.task)) =>
                ~Executed /\ taskrun.ret.code = 2 /\ taskrun.ret.out # ""
        /\ Executed =>
              \A i \in DOMAIN taskrun.argv :
                  LET piece == taskrun.argv[i]
                  IN  piece.hole # "" =>
                        /\ Declared(taskrun.task, piece.hole)
                        /\ Accepts(DefOf(taskrun.task, piece.hole).pattern,
                                   ValueOf(taskrun.params, piece.hole))
                        /\ piece.text = quote(ValueOf(taskrun.params, piece.hole))
                        /\ OneWordFor(piece.text, ValueOf(taskrun.params, piece.hole))

\* a command has run whose parameter value ends with a newline, which the
\* default pattern lets through and the quoting encloses
C28_Witness ==
    /\ taskrun.at = "done" /\ Executed
    /\ "path" \in DOMAIN taskrun.params /\ taskrun.params["path"] = <<"a", "\n">>
    /\ \E i \in DOMAIN taskrun.argv :
          taskrun.argv[i].hole = "path" /\ taskrun.argv[i].text = <<"'", "a", "\n", "'">>

\* an optional parameter is left out and nothing else is wrong with the call
OmitsOptional(task, params) ==
    /\ \E i \in DOMAIN task.params :
          ~task.params[i].required /\ task.params[i].name \notin DOMAIN params
    /\ ~UnknownSupplied(task, params)
    /\ ~RequiredMissing(task, params)
    /\ ~SuppliedMismatch(task, params)
    /\ ~HoleWithoutParam(task)

\* C30: a call that leaves out a parameter declared with required=false,
\* and is valid otherwise, is accepted and rendered, whatever the pattern of
\* that parameter is.
C30_OptionalMayBeOmitted ==
    taskrun.at \in {"validated", "done"} /\ OmitsOptional(taskrun.task, taskrun.params) =>
        taskrun.rendered.ok

\* C30 for optional parameters whose pattern matches the empty text
C30_Kept ==
    /\ taskrun.at \in {"validated", "done"}
    /\ OmitsOptional(taskrun.task, taskrun.params)
    /\ \A i \in DOMAIN taskrun.task.params :
          taskrun.task.params[i].name \notin DOMAIN taskrun.params =>
              Accepts(taskrun.task.params[i].pattern, <<>>)
    => taskrun.rendered.ok

\* the blocked shell operators the claim lists
HasOperator(t) == \E i \in DOMAIN t : t[i] \in Operators

\* C29: over any sequence of POST /run requests, what bash is handed holds no
\* blocked shell operator from the client: the command ran only if
\* _validate_command accepted it, and the working directory that cd stored
\* for the session, put in front as "cd <cwd> ; <cmd>", holds none either.
C29_NoOperatorToBash ==
    /\ term.bash.ran =>
          /\ validate_command(term.bash.cmd).ok
          /\ ~HasOperator(term.bash.cmd)
          /\ ~HasOperator(term.bash.cwd)
    /\ \A k \in Sessions : ~HasOperator(term.CWD_MAP[k])

\* what holds of it: the command itself was accepted and holds no operator,
\* and the only operators of the text are those of the working directory
C29_Kept ==
    term.bash.ran =>
       /\ validate_command(term.bash.cmd).ok
       /\ ~HasOperator(term.bash.cmd)
       /\ term.bash.wrapped = <<"cd", Blank>> \o term.bash.cwd \o <<Blank, ";", Blank>> \o term.bash.cmd

====
